---- MODULE Spec2Model ----
(***************************************************************************)
(* A model of the idea generation / evaluation / refinement agent.         *)
(*                                                                         *)
(* Numbers are fixed point.  A dimension score is held in tenths (9.5 is   *)
(* 95), a weight in hundredths (0.25 is 25), so a composite, a sum of      *)
(* score * weight, is held in thousandths (8.7 is 8700).                   *)
(*                                                                         *)
(* A text is a sequence of tokens.  For the texts the evaluator parses a   *)
(* token is a dimension label, a "<n>/10" score, a newline, or any other   *)
(* run of characters that holds none of these.                             *)
(*                                                                         *)
(* The research pipeline of src/pipeline.py is modelled beside the agent:  *)
(* a dictionary is a record whose every key is held as a sequence, <<>>    *)
(* for a key that is absent and <<v>> for a key with the value v.          *)
(***************************************************************************)
EXTENDS Integers, Sequences, FiniteSets, TLC

VARIABLES
    EVAL_WEIGHTS,               \* config.py: dimension -> weight (hundredths)
    EVAL_DIMENSION_THRESHOLDS,  \* config.py: dimension -> threshold (tenths)
    mode,                       \* which entry point this behaviour exercises
    phase,                      \* position of the evaluator entry points
    raw_feedback,               \* the text handed to _parse_evaluation
    result,                     \* an EvaluationResult
    passes,                     \* the value read from result.passes_threshold
    num_ideas,                  \* run(num_ideas=...)
    max_rounds,                 \* run(max_rounds=...)
    pc,                         \* position of the control in run()
    err,                        \* the exception that left run(), "" for none
    calls,                      \* every DeepSeekClient.chat call issued, in order
    individual_ideas,           \* the candidates _split_ideas returned
    idx,                        \* idea_index of the candidate in work
    results_ideas,              \* results["ideas"]
    final_report,               \* results["final_report"]
    best,                       \* run(): best, 0 for None and before step 5
    idea_record,                \* _process_single_idea: idea_record
    current_idea,               \* _process_single_idea: current_idea
    round_num,                  \* _process_single_idea: round_num
    review_a,                   \* MultiReviewer.evaluate: review_a
    review_b,                   \* MultiReviewer.evaluate: review_b
    eval_result,                \* _process_single_idea: eval_result
    saved,                      \* the records _save_results wrote, <<>> for none
    summary,                    \* _print_summary: per idea, marked as passed
    environ,                    \* os.environ: the two DEEPSEEK_API_* variables
    disk,                       \* the files of the project directory
    hypothesis,                 \* run_pipeline: hypothesis
    plan,                       \* run_pipeline: plan
    results,                    \* run_pipeline: results
    stages                      \* the stages of run_pipeline that returned, in order

evalVars == <<mode, phase, raw_feedback, result, passes>>
cfgVars == <<EVAL_WEIGHTS, EVAL_DIMENSION_THRESHOLDS>>
inputVars == <<num_ideas, max_rounds>>
ideaVars == <<idea_record, current_idea, round_num, review_a, review_b, eval_result>>
runVars ==
    <<inputVars, pc, err, calls, individual_ideas, idx, results_ideas,
      final_report, best, ideaVars, saved, summary>>
pipeVars == <<environ, disk, hypothesis, plan, results, stages>>
vars == <<cfgVars, evalVars, runVars, pipeVars>>

----------------------------------------------------------------------------
(* Bounds of the model. *)

\* Longest text, in tokens, among the texts enumerated exhaustively.
MaxLen == 3

\* Largest max_rounds a run is started with.
MaxRounds == 3

\* Longest list of records handed to _select_best_idea on its own.
MaxIdeas == 3

----------------------------------------------------------------------------
(* config.py *)

\* Order of the keys of score_patterns and of the shipped dictionaries.
Dims == <<"novelty", "feasibility", "significance", "clarity", "relevance">>

DimSet == {Dims[i] : i \in 1..Len(Dims)}

NUM_IDEAS_PER_ROUND == 3

\* 8.0, in thousandths.
EVALUATION_THRESHOLD == 8000

ShippedWeights ==
    [novelty |-> 25, feasibility |-> 20, significance |-> 25,
     clarity |-> 15, relevance |-> 15]

\* Dimension thresholds of 8 throughout.
ShippedThresholds_AllEight == [d \in DimSet |-> 80]

ShippedThresholds ==
    [novelty |-> 90, feasibility |-> 90, significance |-> 80,
     clarity |-> 80, relevance |-> 80]

\* config.py as edited by an operator: weights that do not sum to 1.0, and
\* a dictionary with one key left out.
WeightsBadSum == [ShippedWeights EXCEPT !.novelty = 35]

WeightsMissingKey == [d \in DimSet \ {"relevance"} |-> ShippedWeights[d]]

ThresholdsMissingKey == [d \in DimSet \ {"relevance"} |-> ShippedThresholds[d]]

Configs ==
    { <<ShippedWeights, ShippedThresholds>>,
      <<WeightsBadSum, ShippedThresholds>>,
      <<WeightsMissingKey, ShippedThresholds>>,
      <<ShippedWeights, ThresholdsMissingKey>> }

RECURSIVE SumOver(_, _)
SumOver(f, S) ==
    IF S = {} THEN 0
    ELSE LET d == CHOOSE x \in S : TRUE IN f[d] + SumOver(f, S \ {d})

\* What the specification asks of a configuration: a weight and a threshold
\* for each dimension, the weights summing to 1.0.
ValidConfig ==
    /\ DOMAIN EVAL_WEIGHTS = DimSet
    /\ DOMAIN EVAL_DIMENSION_THRESHOLDS = DimSet
    /\ SumOver(EVAL_WEIGHTS, DimSet) = 100

ShippedConfig ==
    /\ EVAL_WEIGHTS = ShippedWeights
    /\ EVAL_DIMENSION_THRESHOLDS = ShippedThresholds

----------------------------------------------------------------------------
(* Texts *)

Label(d) == [k |-> "label", d |-> d, v |-> 0]

\* A substring matching (\d+(?:\.\d+)?)\s*/\s*10, v the captured number.
Score(v) == [k |-> "score", d |-> "", v |-> v]

NL == [k |-> "nl", d |-> "", v |-> 0]

Other == [k |-> "other", d |-> "", v |-> 0]

\* Captured numbers of the exhaustively enumerated texts: 7.9 and 15.
TokenScores == {79, 150}

Alphabet ==
    {Label(d) : d \in DimSet} \cup {Score(v) : v \in TokenScores} \cup {NL, Other}

ShortTexts == UNION {[1..n -> Alphabet] : n \in 0..MaxLen}

RECURSIVE Concat(_)
Concat(ss) == IF ss = <<>> THEN <<>> ELSE Head(ss) \o Concat(Tail(ss))

\* A review in the layout the prompts ask for: one line per dimension,
\* "<label>: <n>/10".
ReportText(s) ==
    Concat([i \in 1..Len(Dims) |-> <<Label(Dims[i]), Score(s[Dims[i]]), NL>>])

Scenario9 ==
    [novelty |-> 100, feasibility |-> 100, significance |-> 100,
     clarity |-> 100, relevance |-> 79]

Scenario10 ==
    [novelty |-> 95, feasibility |-> 90, significance |-> 85,
     clarity |-> 80, relevance |-> 80]

ReportScores == [DimSet -> {0, 80, 90, 100}] \cup {Scenario9, Scenario10}

ReportTexts == {ReportText(s) : s \in ReportScores}

Texts == ShortTexts \cup ReportTexts

----------------------------------------------------------------------------
(* idea_evaluator.py *)

\* EvaluationResult.__init__
EvaluationResult ==
    [novelty |-> 0, feasibility |-> 0, significance |-> 0, clarity |-> 0,
     relevance |-> 0, weighted_score |-> 0, raw_feedback |-> <<>>]

\* ScanLine with re.DOTALL, under which "." also matches a newline.
RECURSIVE ScanLine_DotAll(_, _)
ScanLine_DotAll(text, j) ==
    IF j > Len(text) THEN <<>>
    ELSE IF text[j].k = "score" THEN <<text[j].v>>
    ELSE ScanLine_DotAll(text, j + 1)

\* The lazy ".*?" followed by the score group, tried from position j: the
\* nearest score on the rest of the line ("." does not match a newline).
\* <<>> is no match, <<v>> a match capturing v.
RECURSIVE ScanLine(_, _)
ScanLine(text, j) ==
    IF j > Len(text) THEN <<>>
    ELSE IF text[j].k = "score" THEN <<text[j].v>>
    ELSE IF text[j].k = "nl" THEN <<>>
    ELSE ScanLine(text, j + 1)

\* re.search(pattern of dimension d, text): the leftmost position at which
\* the pattern matches, tried from position i on.
RECURSIVE Search(_, _, _)
Search(text, d, i) ==
    IF i > Len(text) THEN <<>>
    ELSE IF text[i] = Label(d) /\ ScanLine(text, i + 1) # <<>>
         THEN ScanLine(text, i + 1)
    ELSE Search(text, d, i + 1)

\* The loop over score_patterns: setattr only on a match.
ExtractScores(text) ==
    [d \in DimSet |->
        LET match == Search(text, d, 1)
        IN  IF match # <<>> THEN match[1] ELSE EvaluationResult[d]]

\* EVAL_WEIGHTS[d] raises KeyError when d is no key of the dictionary.
ParseRaises == \E d \in DimSet : d \notin DOMAIN EVAL_WEIGHTS

\* WeightedSum with the last term multiplied by the first term's weight.
WeightedSum_WrongKey(r) ==
    r.novelty * EVAL_WEIGHTS["novelty"]
    + r.feasibility * EVAL_WEIGHTS["feasibility"]
    + r.significance * EVAL_WEIGHTS["significance"]
    + r.clarity * EVAL_WEIGHTS["clarity"]
    + r.relevance * EVAL_WEIGHTS["novelty"]

WeightedSum(r) ==
    r.novelty * EVAL_WEIGHTS["novelty"]
    + r.feasibility * EVAL_WEIGHTS["feasibility"]
    + r.significance * EVAL_WEIGHTS["significance"]
    + r.clarity * EVAL_WEIGHTS["clarity"]
    + r.relevance * EVAL_WEIGHTS["relevance"]

\* IdeaEvaluator._parse_evaluation, when it does not raise.  The lists
\* strengths, weaknesses and suggestions are read by nothing and left out.
_parse_evaluation(text) ==
    LET s == ExtractScores(text)
        r == [d \in DOMAIN EvaluationResult |->
                IF d \in DimSet THEN s[d] ELSE EvaluationResult[d]]
    IN  [r EXCEPT !.raw_feedback = text, !.weighted_score = WeightedSum(r)]

\* failed_dimensions comparing with <= : a score equal to its threshold fails.
failed_dimensions_Strict(r) ==
    {dim \in DOMAIN EVAL_DIMENSION_THRESHOLDS :
        r[dim] <= EVAL_DIMENSION_THRESHOLDS[dim]}

\* failed_dimensions comparing the score rounded to a whole number.
failed_dimensions_Rounded(r) ==
    {dim \in DOMAIN EVAL_DIMENSION_THRESHOLDS :
        ((r[dim] + 5) \div 10) * 10 < EVAL_DIMENSION_THRESHOLDS[dim]}

\* EvaluationResult.failed_dimensions, as the set of its keys.
failed_dimensions(r) ==
    {dim \in DOMAIN EVAL_DIMENSION_THRESHOLDS :
        r[dim] < EVAL_DIMENSION_THRESHOLDS[dim]}

\* passes_threshold without the per-dimension gate.
passes_threshold_CompositeOnly(r) == r.weighted_score >= EVALUATION_THRESHOLD

\* EvaluationResult.passes_threshold
passes_threshold(r) ==
    IF r.weighted_score < EVALUATION_THRESHOLD THEN FALSE
    ELSE Cardinality(failed_dimensions(r)) = 0

----------------------------------------------------------------------------
(* agent.py: records *)

\* The idea_record dictionary as _process_single_idea creates it.
NewRecord(idea_content) ==
    [original |-> idea_content, current |-> idea_content,
     evaluations |-> <<>>, refinements |-> <<>>,
     final_score |-> 0, rounds_used |-> 0]

\* No idea_record: _process_single_idea is not running.
NoRecord == NewRecord(<<>>)

----------------------------------------------------------------------------
(* src/pipeline.py: dictionaries and files *)

\* Bound: the entries meta/costs.json holds before the run.
MaxCosts == 1

\* key in obj
Has(opt) == opt # <<>>

\* obj.get(key, default)
Get(opt, default) == IF opt = <<>> THEN default ELSE opt[1]

\* bool(obj) of a dictionary: it holds some key.
Truthy(obj) == \E k \in DOMAIN obj : Has(obj[k])

\* ensure_required: the required keys that are missing.
ensure_required(obj, required) == {k \in required : ~Has(obj[k])}

HypothesisRequired ==
    {"id", "motivation", "statement", "metrics", "mvp", "budget",
     "failure_conditions", "expected_gain"}

PlanRequired ==
    {"id", "hypothesis_id", "datasets", "models", "variables", "controls",
     "metrics", "budget", "retry_policy"}

\* A hypothesis as hypotheses.json of the sample project holds it.
GoodHypothesis ==
    [id |-> <<"H1">>, motivation |-> <<"text">>, statement |-> <<"text">>,
     metrics |-> <<"text">>, mvp |-> <<"text">>,
     budget |-> <<[token_limit |-> <<1000>>]>>,
     failure_conditions |-> <<"text">>, expected_gain |-> <<"text">>]

\* Hypotheses a file or a model reply may hold: the good one, one with a key
\* left out, one with a token_limit of 0, one with no token_limit.
Hypotheses ==
    { GoodHypothesis,
      [GoodHypothesis EXCEPT !.expected_gain = <<>>],
      [GoodHypothesis EXCEPT !.budget = <<[token_limit |-> <<0>>]>>],
      [GoodHypothesis EXCEPT !.budget = <<[token_limit |-> <<>>]>>] }

\* The dictionary {} where a budget is looked for.
EmptyBudget == [token_limit |-> <<>>]

\* The dictionary {} where an execution section is looked for.
EmptyExecution ==
    [llm_mode |-> <<>>, allow_training |-> <<>>, api_key |-> <<>>, api_url |-> <<>>]

\* The execution section the planning prompt asks for.
GoodExecution ==
    [EmptyExecution EXCEPT
        !.llm_mode = <<"api_inference">>, !.allow_training = <<FALSE>>]

Executions ==
    { GoodExecution,
      EmptyExecution,
      [EmptyExecution EXCEPT !.allow_training = <<FALSE>>],
      [EmptyExecution EXCEPT !.allow_training = <<TRUE>>],
      [EmptyExecution EXCEPT !.llm_mode = <<"api_inference">>],
      [GoodExecution EXCEPT !.llm_mode = <<"local_training">>],
      [GoodExecution EXCEPT !.api_key = <<"key">>, !.api_url = <<"url">>] }

GoodBudget == [max_runs |-> <<1>>, max_token_usage |-> <<200000>>]

GoodPlan ==
    [id |-> <<"P1">>, hypothesis_id |-> <<"H1">>, datasets |-> <<"text">>,
     models |-> <<"text">>, variables |-> <<"text">>, controls |-> <<"text">>,
     metrics |-> <<"text">>, budget |-> <<GoodBudget>>,
     retry_policy |-> <<"text">>, execution |-> <<GoodExecution>>]

\* Plans a file or a model reply may hold: the good plan with each execution
\* section and with none, and the good plan with one other fault each.
Plans ==
    {[GoodPlan EXCEPT !.execution = <<e>>] : e \in Executions}
        \cup { [GoodPlan EXCEPT !.execution = <<>>],
               [GoodPlan EXCEPT !.retry_policy = <<>>],
               [GoodPlan EXCEPT !.hypothesis_id = <<"H2">>],
               [GoodPlan EXCEPT !.budget = <<[GoodBudget EXCEPT !.max_runs = <<0>>]>>],
               [GoodPlan EXCEPT !.budget = <<[GoodBudget EXCEPT !.max_runs = <<>>]>>],
               [GoodPlan EXCEPT
                   !.budget = <<[GoodBudget EXCEPT !.max_token_usage = <<>>]>>] }

\* The locals of run_pipeline before they are assigned.
NoHypothesis == [k \in HypothesisRequired |-> <<>>]

NoPlan == [k \in PlanRequired \cup {"execution"} |-> <<>>]

NoMetrics ==
    [baseline_accuracy |-> <<>>, normalized_accuracy |-> <<>>,
     bias_gap_verbose_vs_concise |-> <<>>]

NoCost == [token_usage |-> <<>>, compute_hours |-> <<>>]

NoResults ==
    [run_id |-> "", hypothesis_id |-> "", plan_id |-> "", metrics |-> NoMetrics,
     cost |-> NoCost, status |-> "", mode |-> <<>>]

\* An entry of meta/costs.json (the timestamp is not held).
CostEntry(run_id, token_usage, compute_hours) ==
    [run_id |-> run_id, token_usage |-> token_usage, compute_hours |-> compute_hours]

\* meta/costs.json with n entries of earlier runs.
EarlierCosts(n) == [i \in 1..n |-> CostEntry("run_0", 120000, 12)]

\* The project directory before the run: hypotheses.json and plan.json may
\* be missing, hypotheses.json may hold an empty list, costs.json may be
\* missing; there is no run directory and no report yet.
Disks ==
    [hypotheses : {<<>>, << <<>> >>} \cup {<< <<h>> >> : h \in Hypotheses},
     plan : {<<>>} \cup {<<p>> : p \in Plans},
     runs : {<<>>},
     report : {<<>>},
     costs : {<<>>} \cup {<<EarlierCosts(n)>> : n \in 0..MaxCosts}]

\* The environment: both variables set, none, the key alone.
Environs ==
    { [DEEPSEEK_API_KEY |-> <<"key">>, DEEPSEEK_API_URL |-> <<"url">>],
      [DEEPSEEK_API_KEY |-> <<>>, DEEPSEEK_API_URL |-> <<>>],
      [DEEPSEEK_API_KEY |-> <<"key">>, DEEPSEEK_API_URL |-> <<>>] }

\* The state of the pipeline while the agent or the evaluator is exercised.
PipelineIdle ==
    /\ environ = [DEEPSEEK_API_KEY |-> <<>>, DEEPSEEK_API_URL |-> <<>>]
    /\ disk = [hypotheses |-> <<>>, plan |-> <<>>, runs |-> <<>>,
               report |-> <<>>, costs |-> <<>>]
    /\ hypothesis = NoHypothesis
    /\ plan = NoPlan
    /\ results = NoResults
    /\ stages = <<>>

----------------------------------------------------------------------------
(* The evaluator's entry points applied to drawn inputs. *)

\* Field values of a directly built EvaluationResult: both sides of each
\* dimension threshold and of the composite threshold.
FieldScores == {79, 80, 89, 90}

FieldComposites == {7999, 8000, 9000}

AssignedResults ==
    {[novelty |-> s["novelty"], feasibility |-> s["feasibility"],
      significance |-> s["significance"], clarity |-> s["clarity"],
      relevance |-> s["relevance"], weighted_score |-> w,
      raw_feedback |-> <<>>] : s \in [DimSet -> FieldScores], w \in FieldComposites}

InitConfig ==
    \E c \in Configs :
        /\ EVAL_WEIGHTS = c[1]
        /\ EVAL_DIMENSION_THRESHOLDS = c[2]

\* The state of the agent while only the evaluator is exercised.
RunIdle ==
    /\ num_ideas = 0
    /\ max_rounds = 0
    /\ pc = "idle"
    /\ err = ""
    /\ calls = <<>>
    /\ individual_ideas = <<>>
    /\ idx = 0
    /\ results_ideas = <<>>
    /\ final_report = "None"
    /\ best = 0
    /\ idea_record = NoRecord
    /\ current_idea = <<>>
    /\ round_num = 0
    /\ review_a = <<>>
    /\ review_b = <<>>
    /\ eval_result = EvaluationResult
    /\ saved = <<>>
    /\ summary = <<>>
    /\ PipelineIdle

InitEval ==
    /\ InitConfig
    /\ RunIdle
    /\ passes = FALSE
    /\ \/ /\ mode = "parse"
          /\ phase = "text"
          /\ raw_feedback \in Texts
          /\ result = EvaluationResult
       \/ /\ mode = "assign"
          /\ phase = "built"
          /\ raw_feedback = <<>>
          /\ result \in AssignedResults

\* result = self._parse_evaluation(raw_feedback)
ParseEvaluation ==
    /\ phase = "text"
    /\ ~ParseRaises
    /\ result' = _parse_evaluation(raw_feedback)
    /\ phase' = "built"
    /\ UNCHANGED <<pipeVars, cfgVars, runVars, mode, raw_feedback, passes>>

\* The KeyError of a weight dictionary with a key left out.
ParseEvaluationRaises ==
    /\ phase = "text"
    /\ ParseRaises
    /\ phase' = "raised"
    /\ UNCHANGED <<pipeVars, cfgVars, runVars, mode, raw_feedback, result, passes>>

\* A read of result.passes_threshold.
ReadPasses ==
    /\ phase = "built"
    /\ passes' = passes_threshold(result)
    /\ phase' = "judged"
    /\ UNCHANGED <<pipeVars, cfgVars, runVars, mode, raw_feedback, result>>

NextEval == ParseEvaluation \/ ParseEvaluationRaises \/ ReadPasses

SpecEval == InitEval /\ [][NextEval]_vars

----------------------------------------------------------------------------
(* Texts the model returns to the agent. *)

\* The substring "### Idea <n>".
Hdr(n) == [k |-> "hdr", d |-> "", v |-> n]

\* Characters holding the word "Idea" outside a header.
IdeaWord == [k |-> "idea", d |-> "", v |-> 0]

\* Whitespace other than a newline.
WS == [k |-> "ws", d |-> "", v |-> 0]

\* The output of refinement r.
Refined(r) == [k |-> "other", d |-> "refined", v |-> r]

\* The tokens of a generated text.
SplitAlphabet == {Hdr(1), Hdr(2), IdeaWord, Other, WS, NL}

\* Every generated text of at most MaxLen tokens.
SplitTexts == UNION {[1..n -> SplitAlphabet] : n \in 0..MaxLen}

\* Replies of the generation call: an empty reply, one idea, two ideas;
\* where the split is run on its own, every short text beside them.
RunGenTexts ==
    { <<>>,
      <<Hdr(1), Other>>,
      <<Hdr(1), Other, WS, Hdr(2), Other>> }
        \cup (IF mode = "split" THEN SplitTexts ELSE {})

\* Replies of the two reviewers, each with scores of its own.
RunReviewATexts == {<<Label("novelty"), Score(0)>>}

RunReviewBTexts == {<<Label("novelty"), Score(100), NL, Label("clarity"), Score(100)>>}

\* Replies of the arbitration: scores that pass; relevance alone below its
\* threshold beside a novelty of 15/10; no score at all; and, in the runs
\* with one round, relevance alone below its threshold beside four scores
\* of 10.
RunArbTexts ==
    { ReportText(Scenario10),
      ReportText([Scenario9 EXCEPT !.novelty = 150]),
      <<>> }
        \cup (IF max_rounds = 1 THEN {ReportText(Scenario9)} ELSE {})

\* Replies of the refinement of round r: a text of its own and, in the runs
\* with two rounds, also an empty reply and a reply that is no idea but a
\* score.
RunRefTexts(r) ==
    IF max_rounds = 2
    THEN { <<Refined(r)>>, <<>>, <<Label("novelty"), Score(100)>> }
    ELSE { <<Refined(r)>> }

----------------------------------------------------------------------------
(* multi_reviewer.py *)

HeaderA == [k |-> "other", d |-> "Reviewer A", v |-> 0]

HeaderB == [k |-> "other", d |-> "Reviewer B", v |-> 0]

HeaderMeta == [k |-> "other", d |-> "Meta Reviewer", v |-> 0]

\* Commentary with the review of B under the header of A and the review of
\* A under the header of B.
Commentary_Swapped(a, b, final_decision) ==
    <<HeaderA, NL>> \o b \o <<NL, NL, HeaderB, NL>> \o a
        \o <<NL, NL, HeaderMeta, NL>> \o final_decision

\* The f-string assigned to result.raw_feedback.
Commentary(a, b, final_decision) ==
    <<HeaderA, NL>> \o a \o <<NL, NL, HeaderB, NL>> \o b
        \o <<NL, NL, HeaderMeta, NL>> \o final_decision

\* MultiReviewerResult with the scores read from the whole commentary.
MultiReviewerResult_FromCommentary(a, b, final_decision) ==
    _parse_evaluation(Commentary(a, b, final_decision))

\* MultiReviewer.evaluate from the arbitration's reply on: the scores of the
\* arbitration text, the commentary of all three.
MultiReviewerResult(a, b, final_decision) ==
    [_parse_evaluation(final_decision) EXCEPT
        !.raw_feedback = Commentary(a, b, final_decision)]

----------------------------------------------------------------------------
(* agent.py *)

IsSpace(t) == t.k \in {"ws", "nl"}

RECURSIVE lstrip(_)
lstrip(text) ==
    IF text # <<>> /\ IsSpace(Head(text)) THEN lstrip(Tail(text)) ELSE text

RECURSIVE rstrip(_)
rstrip(text) ==
    IF text # <<>> /\ IsSpace(text[Len(text)])
    THEN rstrip(SubSeq(text, 1, Len(text) - 1))
    ELSE text

\* str.strip()
strip(text) == rstrip(lstrip(text))

\* "Idea" in part
HoldsIdea(part) == \E i \in 1..Len(part) : part[i].k \in {"hdr", "idea"}

HeaderPositions(text) == {i \in 1..Len(text) : text[i].k = "hdr"}

Min(S) == CHOOSE x \in S : \A y \in S : x <= y

RECURSIVE PartsFrom(_, _)
PartsFrom(text, H) ==
    IF H = {} THEN <<>>
    ELSE LET h == Min(H)
             next == Min((H \ {h}) \cup {Len(text) + 1})
         IN  <<SubSeq(text, h, next - 1)>> \o PartsFrom(text, H \ {h})

\* re.split(r"(?=### Idea\s*\d+)", text): the text before the first header
\* (empty when the text starts with one), then one part per header.
re_split(text) ==
    LET H == HeaderPositions(text)
    IN  IF H = {} THEN <<text>>
        ELSE <<SubSeq(text, 1, Min(H) - 1)>> \o PartsFrom(text, H)

RECURSIVE KeepIdeas(_)
KeepIdeas(parts) ==
    IF parts = <<>> THEN <<>>
    ELSE IF strip(Head(parts)) # <<>> /\ HoldsIdea(Head(parts))
         THEN <<strip(Head(parts))>> \o KeepIdeas(Tail(parts))
    ELSE KeepIdeas(Tail(parts))

\* _split_ideas without the fallback to the whole text.
_split_ideas_NoFallback(raw_ideas) == KeepIdeas(re_split(raw_ideas))

\* ResearchIdeaAgent._split_ideas
_split_ideas(raw_ideas) ==
    LET ideas == KeepIdeas(re_split(raw_ideas))
    IN  IF ideas = <<>> THEN <<strip(raw_ideas)>> ELSE ideas

\* max(ideas, key=...) read with >= : the last of the maximal records.
RECURSIVE MaxByFinalScore_Last(_, _, _)
MaxByFinalScore_Last(ideas, i, m) ==
    IF i > Len(ideas) THEN m
    ELSE IF ideas[i].final_score >= ideas[m].final_score
         THEN MaxByFinalScore_Last(ideas, i + 1, i)
    ELSE MaxByFinalScore_Last(ideas, i + 1, m)

\* max(ideas, key=lambda x: x["final_score"]) from position i on, m being
\* the position of the maximum so far: a later record replaces it only when
\* its key is strictly greater.
RECURSIVE MaxByFinalScore(_, _, _)
MaxByFinalScore(ideas, i, m) ==
    IF i > Len(ideas) THEN m
    ELSE IF ideas[i].final_score > ideas[m].final_score
         THEN MaxByFinalScore(ideas, i + 1, i)
    ELSE MaxByFinalScore(ideas, i + 1, m)

\* _select_best_idea without its guard against an empty list.
_select_best_idea_Unguarded(ideas) == MaxByFinalScore(ideas, 2, 1)

\* _select_best_idea: None (0) for an empty list, else the position of the
\* record max() returns.
_select_best_idea(ideas) ==
    IF ideas = <<>> THEN 0 ELSE MaxByFinalScore(ideas, 2, 1)

\* What a prompt is built from: the candidate text, the two reviews, the
\* feedback.  The topic and the references are the same in every prompt of a
\* run and are not held.
Prompt(idea, a, b, feedback) ==
    [idea |-> idea, a |-> a, b |-> b, feedback |-> feedback]

NoPrompt == Prompt(<<>>, <<>>, <<>>, <<>>)

\* IDEA_EVALUATION_USER.format(...) of _get_review
ReviewPrompt == Prompt(current_idea, <<>>, <<>>, <<>>)

\* MetaPrompt with the two reviews in each other's place.
MetaPrompt_Swapped == Prompt(current_idea, review_b, review_a, <<>>)

\* META_REVIEWER_USER.format(...) of _get_meta_review
MetaPrompt == Prompt(current_idea, review_a, review_b, <<>>)

\* RefinePrompt with the original text of the candidate in place of the
\* current one.
RefinePrompt_Original ==
    Prompt(idea_record.original, <<>>, <<>>, eval_result.raw_feedback)

\* IDEA_REFINEMENT_USER.format(...) of refine, as _process_single_idea
\* calls it.
RefinePrompt == Prompt(current_idea, <<>>, <<>>, eval_result.raw_feedback)

\* One DeepSeekClient.chat call, as logged: its place, its prompt, whether
\* it returned and the text it returned.
Call(kind, ok, prompt, reply) ==
    [kind |-> kind, idea |-> idx, round |-> round_num, ok |-> ok,
     prompt |-> prompt, reply |-> reply]

\* Raise of a call site that tries the call again.
Raise_Retry(e) ==
    /\ pc' = pc
    /\ err' = err

\* An exception leaves run(); main() reports it and exits.
Raise(e) ==
    /\ pc' = "raised"
    /\ err' = e

\* The shipped configuration and the default num_ideas: the inputs that are
\* run with every max_rounds; any other input is run with at most one
\* round.
UsualInputs == ShippedConfig /\ num_ideas = NUM_IDEAS_PER_ROUND

InitRun ==
    /\ InitConfig
    /\ mode = "run"
    /\ phase = "idle"
    /\ raw_feedback = <<>>
    /\ result = EvaluationResult
    /\ passes = FALSE
    /\ num_ideas \in {0, NUM_IDEAS_PER_ROUND}
    /\ max_rounds \in 0..MaxRounds
    /\ UsualInputs \/ max_rounds <= 1
    /\ pc = "start"
    /\ err = ""
    /\ calls = <<>>
    /\ individual_ideas = <<>>
    /\ idx = 0
    /\ results_ideas = <<>>
    /\ final_report = "None"
    /\ best = 0
    /\ idea_record = NoRecord
    /\ current_idea = <<>>
    /\ round_num = 0
    /\ review_a = <<>>
    /\ review_b = <<>>
    /\ eval_result = EvaluationResult
    /\ saved = <<>>
    /\ summary = <<>>
    /\ PipelineIdle

\* run(), step 1: knowledge_base.search_arxiv.  A topic holding Chinese
\* characters is first translated by a model call, whose failure is caught.
SearchArxiv ==
    /\ pc = "start"
    /\ \E chinese \in BOOLEAN, ok \in BOOLEAN :
        calls' = IF chinese
                 THEN Append(calls, Call("translate", ok, NoPrompt, <<>>))
                 ELSE calls
    /\ pc' = "generate"
    /\ UNCHANGED <<pipeVars, cfgVars, evalVars, inputVars, err, individual_ideas, idx,
                   results_ideas, final_report, best, ideaVars, saved, summary>>

\* run(), step 2: generator.generate and _split_ideas.
GenerateIdeas ==
    /\ pc = "generate"
    /\ \E raw_ideas \in RunGenTexts :
        /\ calls' = Append(calls, Call("generate", TRUE, NoPrompt, raw_ideas))
        /\ individual_ideas' = _split_ideas(raw_ideas)
    /\ pc' = "loop"
    /\ UNCHANGED <<pipeVars, cfgVars, evalVars, inputVars, err, idx, results_ideas,
                   final_report, best, ideaVars, saved, summary>>

GenerateIdeasFails ==
    /\ pc = "generate"
    /\ calls' = Append(calls, Call("generate", FALSE, NoPrompt, <<>>))
    /\ Raise("ProviderError")
    /\ UNCHANGED <<pipeVars, cfgVars, evalVars, inputVars, individual_ideas, idx,
                   results_ideas, final_report, best, ideaVars, saved, summary>>

\* Returned without the assignment of "current".
Returned_Original(rec) == rec

\* _process_single_idea, its last two lines: the record it returns holds
\* the text the loop ended with.
Returned(rec) == [rec EXCEPT !.current = current_idea]

\* ReturnRecord putting the record in front of the results.
ReturnRecord_InFront(rec) ==
    /\ results_ideas' = <<Returned(rec)>> \o results_ideas
    /\ idea_record' = NoRecord
    /\ current_idea' = <<>>
    /\ round_num' = 0
    /\ review_a' = <<>>
    /\ review_b' = <<>>
    /\ eval_result' = EvaluationResult
    /\ pc' = "loop"

\* _process_single_idea returns: current is set and the record appended to
\* results["ideas"]; its locals are gone.
ReturnRecord(rec) ==
    /\ results_ideas' = Append(results_ideas, Returned(rec))
    /\ idea_record' = NoRecord
    /\ current_idea' = <<>>
    /\ round_num' = 0
    /\ review_a' = <<>>
    /\ review_b' = <<>>
    /\ eval_result' = EvaluationResult
    /\ pc' = "loop"

\* run(), steps 3 and 4: the next candidate enters _process_single_idea.
\* With max_rounds < 1 the loop over the rounds has no iteration.
ProcessSingleIdea ==
    /\ pc = "loop"
    /\ idx < Len(individual_ideas)
    /\ idx' = idx + 1
    /\ LET idea_content == individual_ideas[idx + 1]
       IN  IF max_rounds >= 1
           THEN /\ idea_record' = NewRecord(idea_content)
                /\ current_idea' = idea_content
                /\ round_num' = 1
                /\ pc' = "reviewA"
                /\ UNCHANGED <<results_ideas, review_a, review_b, eval_result>>
           ELSE /\ results_ideas' = Append(results_ideas, NewRecord(idea_content))
                /\ UNCHANGED <<pc, ideaVars>>
    /\ UNCHANGED <<pipeVars, cfgVars, evalVars, inputVars, err, calls, individual_ideas,
                   final_report, best, saved, summary>>

\* ReviewA of a call site that makes the call twice and keeps the second
\* reply.
ReviewA_Twice ==
    /\ pc = "reviewA"
    /\ review_a' \in RunReviewATexts
    /\ calls' = Append(Append(calls, Call("reviewA", TRUE, ReviewPrompt, review_a')),
                       Call("reviewA", TRUE, ReviewPrompt, review_a'))
    /\ pc' = "reviewB"
    /\ UNCHANGED <<pipeVars, cfgVars, evalVars, inputVars, err, individual_ideas, idx,
                   results_ideas, final_report, best, idea_record, current_idea,
                   round_num, review_b, eval_result, saved, summary>>

\* MultiReviewer.evaluate, 1: the reply of reviewer A.
ReviewA ==
    /\ pc = "reviewA"
    /\ review_a' \in RunReviewATexts
    /\ calls' = Append(calls, Call("reviewA", TRUE, ReviewPrompt, review_a'))
    /\ pc' = "reviewB"
    /\ UNCHANGED <<pipeVars, cfgVars, evalVars, inputVars, err, individual_ideas, idx,
                   results_ideas, final_report, best, idea_record, current_idea,
                   round_num, review_b, eval_result, saved, summary>>

\* MultiReviewer.evaluate, 2: the reply of reviewer B.
ReviewB ==
    /\ pc = "reviewB"
    /\ review_b' \in RunReviewBTexts
    /\ calls' = Append(calls, Call("reviewB", TRUE, ReviewPrompt, review_b'))
    /\ pc' = "meta"
    /\ UNCHANGED <<pipeVars, cfgVars, evalVars, inputVars, err, individual_ideas, idx,
                   results_ideas, final_report, best, idea_record, current_idea,
                   round_num, review_a, eval_result, saved, summary>>

\* MultiReviewer.evaluate, 3 and 4: the reply of the arbitration, parsed.
\* A weight dictionary with a key left out raises KeyError here.
MetaReview ==
    /\ pc = "meta"
    /\ \E final_decision \in RunArbTexts :
        /\ calls' = Append(calls, Call("meta", TRUE, MetaPrompt, final_decision))
        /\ IF ParseRaises
           THEN /\ Raise("KeyError")
                /\ UNCHANGED eval_result
           ELSE /\ eval_result' =
                      MultiReviewerResult(review_a, review_b, final_decision)
                /\ pc' = "record"
                /\ UNCHANGED err
    /\ UNCHANGED <<pipeVars, cfgVars, evalVars, inputVars, individual_ideas, idx,
                   results_ideas, final_report, best, idea_record, current_idea,
                   round_num, review_a, review_b, saved, summary>>

\* One of the three calls of MultiReviewer.evaluate fails: the RuntimeError
\* of DeepSeekClient.chat passes through evaluate, _process_single_idea and
\* run, none of which catches it.
EvaluateFails ==
    /\ pc \in {"reviewA", "reviewB", "meta"}
    /\ calls' = Append(calls,
                       Call(pc, FALSE,
                            IF pc = "meta" THEN MetaPrompt ELSE ReviewPrompt, <<>>))
    /\ Raise("ProviderError")
    /\ UNCHANGED <<pipeVars, cfgVars, evalVars, inputVars, individual_ideas, idx,
                   results_ideas, final_report, best, ideaVars, saved, summary>>

\* EvaluationEntry with the rounds counted from 0.
EvaluationEntry_FromZero ==
    [round |-> round_num - 1,
     score |-> eval_result.weighted_score,
     dimension_scores |-> [d \in DimSet |-> eval_result[d]],
     failed_dimensions |-> failed_dimensions(eval_result),
     feedback |-> eval_result.raw_feedback]

\* The entry _process_single_idea appends to the evaluations of the record.
EvaluationEntry ==
    [round |-> round_num,
     score |-> eval_result.weighted_score,
     dimension_scores |-> [d \in DimSet |-> eval_result[d]],
     failed_dimensions |-> failed_dimensions(eval_result),
     feedback |-> eval_result.raw_feedback]

\* Recorded with final_score and rounds_used left as they were.
Recorded_EntryOnly ==
    [idea_record EXCEPT !.evaluations = Append(@, EvaluationEntry)]

\* The record after the evaluation of the round was recorded: the entry,
\* final_score and rounds_used.
Recorded ==
    [idea_record EXCEPT
        !.evaluations = Append(@, EvaluationEntry),
        !.final_score = eval_result.weighted_score,
        !.rounds_used = round_num]

\* BreakLoop of a loop without the break.
BreakLoop_Never == FALSE

\* "if eval_result.passes_threshold: break"
BreakLoop == passes_threshold(eval_result)

\* MayRefine with no round left to refine in.
MayRefine_Never == FALSE

\* MayRefine of a loop that refines after every failed verdict.
MayRefine_Always == TRUE

\* MayRefine with the last round included.
MayRefine_Inclusive == round_num <= max_rounds

\* "if round_num < max_rounds:" before the refinement
MayRefine == round_num < max_rounds

\* _process_single_idea after evaluate returned: the evaluation entry,
\* final_score and rounds_used, then break, refine or the end of the loop.
RecordEvaluation ==
    /\ pc = "record"
    /\ IF BreakLoop
       THEN ReturnRecord(Recorded)
       ELSE IF MayRefine
       THEN /\ idea_record' = Recorded
            /\ pc' = "refine"
            /\ UNCHANGED <<results_ideas, current_idea, round_num,
                           review_a, review_b, eval_result>>
       ELSE ReturnRecord(Recorded)
    /\ UNCHANGED <<pipeVars, cfgVars, evalVars, inputVars, err, calls, individual_ideas,
                   idx, final_report, best, saved, summary>>

\* Refine without the assignment current_idea = refined_idea.
Refine_KeepsCurrent ==
    /\ pc = "refine"
    /\ \E refined_idea \in RunRefTexts(round_num) :
        /\ calls' = Append(calls, Call("refine", TRUE, RefinePrompt, refined_idea))
        /\ idea_record' =
              [idea_record EXCEPT
                  !.refinements =
                      Append(@, [round |-> round_num, content |-> refined_idea])]
    /\ round_num' = round_num + 1
    /\ pc' = "reviewA"
    /\ UNCHANGED <<pipeVars, cfgVars, evalVars, inputVars, err, individual_ideas, idx,
                   results_ideas, final_report, best, current_idea, review_a,
                   review_b, eval_result, saved, summary>>

\* refiner.refine returned: the refinement entry, the next round.
Refine ==
    /\ pc = "refine"
    /\ \E refined_idea \in RunRefTexts(round_num) :
        /\ calls' = Append(calls, Call("refine", TRUE, RefinePrompt, refined_idea))
        /\ idea_record' =
              [idea_record EXCEPT
                  !.refinements =
                      Append(@, [round |-> round_num, content |-> refined_idea])]
        /\ current_idea' = refined_idea
    /\ round_num' = round_num + 1
    /\ pc' = "reviewA"
    /\ UNCHANGED <<pipeVars, cfgVars, evalVars, inputVars, err, individual_ideas, idx,
                   results_ideas, final_report, best, review_a, review_b, eval_result,
                   saved, summary>>

RefineFails ==
    /\ pc = "refine"
    /\ calls' = Append(calls, Call("refine", FALSE, RefinePrompt, <<>>))
    /\ Raise("ProviderError")
    /\ UNCHANGED <<pipeVars, cfgVars, evalVars, inputVars, individual_ideas, idx,
                   results_ideas, final_report, best, ideaVars, saved, summary>>

\* The loop over the candidates is over.
AllIdeasProcessed ==
    /\ pc = "loop"
    /\ idx = Len(individual_ideas)
    /\ pc' = "report"
    /\ UNCHANGED <<pipeVars, cfgVars, evalVars, inputVars, err, calls, individual_ideas,
                   idx, results_ideas, final_report, best, ideaVars, saved, summary>>

\* run(), step 5: no report is asked for (auto_report, read here alone, is
\* drawn here), or there is no best idea: best is None either way.
SkipReport ==
    /\ pc = "report"
    /\ \E auto_report \in BOOLEAN :
        ~auto_report \/ _select_best_idea(results_ideas) = 0
    /\ pc' = "save"
    /\ UNCHANGED <<pipeVars, cfgVars, evalVars, inputVars, err, calls, individual_ideas,
                   idx, results_ideas, final_report, best, ideaVars, saved, summary>>

\* FINAL_REPORT_USER.format(...) of _generate_final_report: the current text
\* of the best idea (its evaluation history is not held).
ReportPrompt ==
    Prompt(results_ideas[_select_best_idea(results_ideas)].current,
           <<>>, <<>>, <<>>)

\* run(), step 5: _generate_final_report for the best idea.
GenerateFinalReport ==
    /\ pc = "report"
    /\ \E auto_report \in BOOLEAN : auto_report
    /\ best' = _select_best_idea(results_ideas)
    /\ best' # 0
    /\ calls' = Append(calls, Call("report", TRUE, ReportPrompt, <<>>))
    /\ final_report' = "report"
    /\ pc' = "save"
    /\ UNCHANGED <<pipeVars, cfgVars, evalVars, inputVars, err, individual_ideas, idx,
                   results_ideas, ideaVars, saved, summary>>

GenerateFinalReportFails ==
    /\ pc = "report"
    /\ \E auto_report \in BOOLEAN : auto_report
    /\ best' = _select_best_idea(results_ideas)
    /\ best' # 0
    /\ calls' = Append(calls, Call("report", FALSE, ReportPrompt, <<>>))
    /\ Raise("ProviderError")
    /\ UNCHANGED <<pipeVars, cfgVars, evalVars, inputVars, individual_ideas, idx,
                   results_ideas, final_report, ideaVars, saved, summary>>

\* _save_results
SaveResults ==
    /\ pc = "save"
    /\ saved' = <<results_ideas>>
    /\ pc' = "summary"
    /\ UNCHANGED <<pipeVars, cfgVars, evalVars, inputVars, err, calls, individual_ideas,
                   idx, results_ideas, final_report, best, ideaVars, summary>>

\* _print_summary, and run() returns.
PrintSummary ==
    /\ pc = "summary"
    /\ summary' =
          [i \in 1..Len(results_ideas) |->
              results_ideas[i].final_score >= EVALUATION_THRESHOLD]
    /\ pc' = "done"
    /\ UNCHANGED <<pipeVars, cfgVars, evalVars, inputVars, err, calls, individual_ideas,
                   idx, results_ideas, final_report, best, ideaVars, saved>>

Next ==
    \/ SearchArxiv
    \/ GenerateIdeas
    \/ GenerateIdeasFails
    \/ ProcessSingleIdea
    \/ ReviewA
    \/ ReviewB
    \/ MetaReview
    \/ EvaluateFails
    \/ RecordEvaluation
    \/ Refine
    \/ RefineFails
    \/ AllIdeasProcessed
    \/ SkipReport
    \/ GenerateFinalReport
    \/ GenerateFinalReportFails
    \/ SaveResults
    \/ PrintSummary

Spec == InitRun /\ [][Next]_vars

\* run() is one sequential computation: as long as a step is possible, one
\* is taken.
SpecFair == Spec /\ WF_vars(Next)

----------------------------------------------------------------------------
(* Step 5 of run() on its own: _select_best_idea and the report, from any
   list of records. *)

\* Final scores of the records of such a list.
FinalScores == {0, 6100, 8900}

\* A record _process_single_idea returned, of which step 5 reads final_score
\* and current.
ScoredRecord(f) == [NewRecord(<<Other>>) EXCEPT !.final_score = f]

SelectLists ==
    UNION {[1..n -> {ScoredRecord(f) : f \in FinalScores}] : n \in 0..MaxIdeas}

InitSelect ==
    /\ ShippedConfig
    /\ mode = "select"
    /\ phase = "idle"
    /\ raw_feedback = <<>>
    /\ result = EvaluationResult
    /\ passes = FALSE
    /\ num_ideas = NUM_IDEAS_PER_ROUND
    /\ max_rounds = 0
    /\ pc = "report"
    /\ err = ""
    /\ calls = <<>>
    /\ individual_ideas = <<>>
    /\ idx = 0
    /\ results_ideas \in SelectLists
    /\ final_report = "None"
    /\ best = 0
    /\ idea_record = NoRecord
    /\ current_idea = <<>>
    /\ round_num = 0
    /\ review_a = <<>>
    /\ review_b = <<>>
    /\ eval_result = EvaluationResult
    /\ saved = <<>>
    /\ summary = <<>>
    /\ PipelineIdle

NextSelect ==
    \/ SkipReport
    \/ GenerateFinalReport
    \/ GenerateFinalReportFails

SpecSelect == InitSelect /\ [][NextSelect]_vars

----------------------------------------------------------------------------
(* Steps 2 to 4 of run() on their own: the generation, _split_ideas and the
   loop over the candidates, the rounds of a candidate left out
   (max_rounds = 0, with which each candidate gets its record at once). *)

InitSplit ==
    /\ ShippedConfig
    /\ mode = "split"
    /\ phase = "idle"
    /\ raw_feedback = <<>>
    /\ result = EvaluationResult
    /\ passes = FALSE
    /\ num_ideas = NUM_IDEAS_PER_ROUND
    /\ max_rounds = 0
    /\ pc = "generate"
    /\ err = ""
    /\ calls = <<>>
    /\ individual_ideas = <<>>
    /\ idx = 0
    /\ results_ideas = <<>>
    /\ final_report = "None"
    /\ best = 0
    /\ idea_record = NoRecord
    /\ current_idea = <<>>
    /\ round_num = 0
    /\ review_a = <<>>
    /\ review_b = <<>>
    /\ eval_result = EvaluationResult
    /\ saved = <<>>
    /\ summary = <<>>
    /\ PipelineIdle

NextSplit ==
    \/ GenerateIdeas
    \/ GenerateIdeasFails
    \/ ProcessSingleIdea
    \/ AllIdeasProcessed

SpecSplit == InitSplit /\ [][NextSplit]_vars

----------------------------------------------------------------------------
(* MultiReviewer.evaluate on its own, called twice: the replies of the two
   reviewers differ between the two calls, the reply of the arbitration is
   the same. *)

\* Replies of a reviewer: scores of its own, scores that would pass, none.
ReviewTexts ==
    RunReviewATexts \cup RunReviewBTexts \cup {ReportText(Scenario10), <<>>}

InitReview ==
    /\ ShippedConfig
    /\ mode = "review"
    /\ phase = "text"
    /\ result = EvaluationResult
    /\ passes = FALSE
    /\ num_ideas = 0
    /\ max_rounds = 0
    /\ raw_feedback \in RunArbTexts
    /\ pc = "idle"
    /\ err = ""
    /\ calls = <<>>
    /\ individual_ideas = <<>>
    /\ idx = 0
    /\ results_ideas = <<>>
    /\ final_report = "None"
    /\ best = 0
    /\ idea_record = NoRecord
    /\ current_idea = <<>>
    /\ round_num = 0
    /\ review_a \in ReviewTexts
    /\ review_b \in ReviewTexts
    /\ eval_result = EvaluationResult
    /\ saved = <<>>
    /\ summary = <<>>
    /\ PipelineIdle

\* What the two calls of evaluate leave alone.
reviewFrame ==
    <<pipeVars, cfgVars, mode, raw_feedback, passes, inputVars, pc, err, calls,
      individual_ideas, idx, results_ideas, final_report, best, idea_record,
      current_idea, round_num, saved, summary>>

\* evaluate returns, the three replies being review_a, review_b and
\* raw_feedback (the final_decision).
Evaluate ==
    /\ phase = "text"
    /\ eval_result' = MultiReviewerResult(review_a, review_b, raw_feedback)
    /\ phase' = "built"
    /\ UNCHANGED <<reviewFrame, review_a, review_b, result>>

\* evaluate returns a second time: other replies of the reviewers, the same
\* reply of the arbitration.
EvaluateOtherReviews ==
    /\ phase = "built"
    /\ mode = "review"
    /\ \E a \in ReviewTexts, b \in ReviewTexts :
        /\ a # review_a
        /\ b # review_b
        /\ review_a' = a
        /\ review_b' = b
        /\ result' = MultiReviewerResult(a, b, raw_feedback)
    /\ phase' = "judged"
    /\ UNCHANGED <<reviewFrame, eval_result>>

NextReview == Evaluate \/ EvaluateOtherReviews

SpecReview == InitReview /\ [][NextReview]_vars

----------------------------------------------------------------------------
(* src/pipeline.py: run_pipeline *)

\* What run_pipeline leaves alone: the state of the agent.
agentFrame ==
    <<cfgVars, evalVars, inputVars, calls, individual_ideas, idx, results_ideas,
      final_report, best, ideaVars, saved, summary>>

\* run_pipeline: shared_client is a client when both variables are set, else
\* None.
shared_client ==
    Has(environ.DEEPSEEK_API_KEY) /\ Has(environ.DEEPSEEK_API_URL)

\* run_id, read from the clock: one run, one identifier.
RunId == "run_1"

\* Reviewer.review_hypothesis: the error it raises, "" when it returns.
review_hypothesis(hyp) ==
    IF ensure_required(hyp, HypothesisRequired) # {}
    THEN "ValueError: hypothesis missing required fields"
    ELSE IF Get(Get(hyp.budget, EmptyBudget).token_limit, 0) <= 0
    THEN "ValueError: Hypothesis budget must specify positive token_limit"
    ELSE ""

\* Reviewer.review_plan: the error it raises, "" when it returns.
review_plan(p, hyp) ==
    IF ensure_required(p, PlanRequired) # {}
    THEN "ValueError: plan missing required fields"
    ELSE IF p.hypothesis_id[1] # hyp.id[1]
    THEN "ValueError: Plan does not target selected hypothesis"
    ELSE IF Get(p.budget[1].max_runs, 0) < 1
    THEN "ValueError: Plan budget must allow at least one run"
    ELSE LET execution == Get(p.execution, EmptyExecution)
         IN  IF Truthy(execution) /\ Get(execution.allow_training, TRUE)
             THEN "ValueError: Plan must disable training; use API inference only"
             ELSE IF /\ Truthy(execution)
                     /\ Get(execution.llm_mode, "None") \notin {"None", "api_inference"}
             THEN "ValueError: Unsupported LLM mode; only api_inference is allowed"
             ELSE ""

\* ExperimentAgent.run: use_api
use_api ==
    LET exec_cfg == Get(plan.execution, EmptyExecution)
    IN  /\ Has(exec_cfg.api_key) \/ Has(environ.DEEPSEEK_API_KEY)
        /\ Has(exec_cfg.api_url) \/ Has(environ.DEEPSEEK_API_URL)

\* ExperimentAgent._run_simulated (accuracies in thousandths, hours in tenths)
_run_simulated ==
    [run_id |-> RunId, hypothesis_id |-> hypothesis.id[1], plan_id |-> plan.id[1],
     metrics |-> [baseline_accuracy |-> <<730>>, normalized_accuracy |-> <<755>>,
                  bias_gap_verbose_vs_concise |-> <<50>>],
     cost |-> [token_usage |-> <<120000>>, compute_hours |-> <<12>>],
     status |-> "success", mode |-> <<"simulation">>]

\* ExperimentAgent._run_with_api when it returns: metrics of the graded
\* samples, an empty cost.
_run_with_api ==
    [run_id |-> RunId, hypothesis_id |-> hypothesis.id[1], plan_id |-> plan.id[1],
     metrics |-> [baseline_accuracy |-> <<1000>>, normalized_accuracy |-> <<500>>,
                  bias_gap_verbose_vs_concise |-> <<500>>],
     cost |-> NoCost,
     status |-> "success", mode |-> <<"deepseek_api">>]

\* ExperimentAgent.run, the result it builds when the API run raised.
FailedResults ==
    [run_id |-> RunId, hypothesis_id |-> hypothesis.id[1], plan_id |-> plan.id[1],
     metrics |-> NoMetrics, cost |-> NoCost, status |-> "failed", mode |-> <<>>]

\* WritingAgent.write_report: the KeyError of the first key the report text
\* reads and does not find, "" when there is none.
write_report_KeyError(p, res) ==
    IF ~Has(res.metrics.baseline_accuracy) THEN "KeyError: baseline_accuracy"
    ELSE IF ~Has(res.metrics.normalized_accuracy) THEN "KeyError: normalized_accuracy"
    ELSE IF ~Has(res.metrics.bias_gap_verbose_vs_concise)
    THEN "KeyError: bias_gap_verbose_vs_concise"
    ELSE IF ~Has(res.cost.token_usage) THEN "KeyError: token_usage"
    ELSE IF ~Has(res.cost.compute_hours) THEN "KeyError: compute_hours"
    ELSE IF ~Has(p.budget[1].max_token_usage) THEN "KeyError: max_token_usage"
    ELSE ""

\* A stage of run_pipeline returned.
Returns(stage, next) ==
    /\ stages' = Append(stages, stage)
    /\ pc' = next
    /\ UNCHANGED err

InitPipeline ==
    /\ ShippedConfig
    /\ mode = "pipeline"
    /\ phase = "idle"
    /\ raw_feedback = <<>>
    /\ result = EvaluationResult
    /\ passes = FALSE
    /\ num_ideas = 0
    /\ max_rounds = 0
    /\ pc = "select"
    /\ err = ""
    /\ calls = <<>>
    /\ individual_ideas = <<>>
    /\ idx = 0
    /\ results_ideas = <<>>
    /\ final_report = "None"
    /\ best = 0
    /\ idea_record = NoRecord
    /\ current_idea = <<>>
    /\ round_num = 0
    /\ review_a = <<>>
    /\ review_b = <<>>
    /\ eval_result = EvaluationResult
    /\ saved = <<>>
    /\ summary = <<>>
    /\ environ \in Environs
    /\ disk \in Disks
    /\ hypothesis = NoHypothesis
    /\ plan = NoPlan
    /\ results = NoResults
    /\ stages = <<>>

\* hypotheses.json exists and holds a non-empty list.
HypothesesOnDisk == Has(disk.hypotheses) /\ disk.hypotheses[1] # <<>>

\* IdeationAgent.select_hypothesis returns: the first hypothesis of the file
\* or, with a client, the first of the generated list, which is written to
\* the file.
SelectHypothesis ==
    /\ pc = "select"
    /\ \/ /\ HypothesesOnDisk
          /\ hypothesis' = disk.hypotheses[1][1]
          /\ UNCHANGED disk
       \/ /\ ~HypothesesOnDisk
          /\ shared_client
          /\ \E h \in Hypotheses :
                /\ hypothesis' = h
                /\ disk' = [disk EXCEPT !.hypotheses = << <<h>> >>]
    /\ Returns("select_hypothesis", "review_hypothesis")
    /\ UNCHANGED <<agentFrame, environ, plan, results>>

\* select_hypothesis raises: no client; or the chat call fails, its reply is
\* no JSON, or it holds no hypothesis.
SelectHypothesisRaises ==
    /\ pc = "select"
    /\ ~HypothesesOnDisk
    /\ \E e \in IF shared_client
                THEN {"RuntimeError", "JSONDecodeError", "ValueError"}
                ELSE {"ValueError"} : Raise(e)
    /\ UNCHANGED <<agentFrame, environ, disk, hypothesis, plan, results, stages>>

ReviewHypothesis ==
    /\ pc = "review_hypothesis"
    /\ review_hypothesis(hypothesis) = ""
    /\ Returns("review_hypothesis", "plan")
    /\ UNCHANGED <<agentFrame, environ, disk, hypothesis, plan, results>>

ReviewHypothesisRaises ==
    /\ pc = "review_hypothesis"
    /\ review_hypothesis(hypothesis) # ""
    /\ Raise("ValueError")
    /\ UNCHANGED <<agentFrame, environ, disk, hypothesis, plan, results, stages>>

\* PlanningAgent.load_or_generate_plan returns: the plan of the file or, with
\* a client, the generated plan, which is written to the file.
LoadOrGeneratePlan ==
    /\ pc = "plan"
    /\ \/ /\ Has(disk.plan)
          /\ plan' = disk.plan[1]
          /\ UNCHANGED disk
       \/ /\ ~Has(disk.plan)
          /\ shared_client
          /\ \E p \in Plans :
                /\ plan' = p
                /\ disk' = [disk EXCEPT !.plan = <<p>>]
    /\ Returns("load_or_generate_plan", "review_plan")
    /\ UNCHANGED <<agentFrame, environ, hypothesis, results>>

\* load_or_generate_plan raises: no client; or the chat call fails or its
\* reply is no JSON.
LoadOrGeneratePlanRaises ==
    /\ pc = "plan"
    /\ ~Has(disk.plan)
    /\ \E e \in IF shared_client
                THEN {"RuntimeError", "JSONDecodeError"}
                ELSE {"ValueError"} : Raise(e)
    /\ UNCHANGED <<agentFrame, environ, disk, hypothesis, plan, results, stages>>

ReviewPlan ==
    /\ pc = "review_plan"
    /\ review_plan(plan, hypothesis) = ""
    /\ Returns("review_plan", "experiment")
    /\ UNCHANGED <<agentFrame, environ, disk, hypothesis, plan, results>>

\* ReviewPlanRaises with the error caught and the pipeline going on.
ReviewPlanRaises_Swallowed ==
    /\ pc = "review_plan"
    /\ review_plan(plan, hypothesis) # ""
    /\ pc' = "experiment"
    /\ UNCHANGED <<agentFrame, err, environ, disk, hypothesis, plan, results, stages>>

ReviewPlanRaises ==
    /\ pc = "review_plan"
    /\ review_plan(plan, hypothesis) # ""
    /\ Raise("ValueError")
    /\ UNCHANGED <<agentFrame, environ, disk, hypothesis, plan, results, stages>>

\* ExperimentAgent.run, from the result on: config.json, results.json and
\* log.txt are written to the run directory, the result is returned.
Run(res) ==
    /\ results' = res
    /\ disk' = [disk EXCEPT
                  !.runs = Append(@, [run_id |-> RunId, config |-> plan,
                                      results |-> res])]
    /\ Returns("run", "write")
    /\ UNCHANGED <<agentFrame, environ, hypothesis, plan>>

RunSimulated ==
    /\ pc = "experiment"
    /\ ~use_api
    /\ Run(_run_simulated)

RunWithApi ==
    /\ pc = "experiment"
    /\ use_api
    /\ Run(_run_with_api)

\* The API run raises (no sample to grade, a failed chat call): run catches
\* the exception and builds the failed result.
RunWithApiFails ==
    /\ pc = "experiment"
    /\ use_api
    /\ Run(FailedResults)

WriteReport ==
    /\ pc = "write"
    /\ write_report_KeyError(plan, results) = ""
    /\ disk' = [disk EXCEPT !.report = <<"auto_report.md">>]
    /\ Returns("write_report", "cost")
    /\ UNCHANGED <<agentFrame, environ, hypothesis, plan, results>>

\* The report text reads a key that is not there: nothing is written.
WriteReportRaises ==
    /\ pc = "write"
    /\ write_report_KeyError(plan, results) # ""
    /\ Raise("KeyError")
    /\ UNCHANGED <<agentFrame, environ, disk, hypothesis, plan, results, stages>>

\* run_pipeline, its end: the cost entry of the run is appended to
\* meta/costs.json and the summary returned.  The two keys of the cost it
\* reads were read by write_report before.
RecordCost ==
    /\ pc = "cost"
    /\ Has(results.cost.token_usage)
    /\ Has(results.cost.compute_hours)
    /\ disk' = [disk EXCEPT
                  !.costs = <<Append(Get(disk.costs, <<>>),
                                     CostEntry(results.run_id,
                                               results.cost.token_usage[1],
                                               results.cost.compute_hours[1]))>>]
    /\ Returns("record_cost", "returned")
    /\ UNCHANGED <<agentFrame, environ, hypothesis, plan, results>>

NextPipeline ==
    \/ SelectHypothesis
    \/ SelectHypothesisRaises
    \/ ReviewHypothesis
    \/ ReviewHypothesisRaises
    \/ LoadOrGeneratePlan
    \/ LoadOrGeneratePlanRaises
    \/ ReviewPlan
    \/ ReviewPlanRaises
    \/ RunSimulated
    \/ RunWithApi
    \/ RunWithApiFails
    \/ WriteReport
    \/ WriteReportRaises
    \/ RecordCost

SpecPipeline == InitPipeline /\ [][NextPipeline]_vars

----------------------------------------------------------------------------
(* Properties of the evaluator (checked under SpecEval). *)

Built == phase \in {"built", "judged"}

Parsed == mode = "parse" /\ Built

ScoresAre(s) == \A d \in DimSet : result[d] = s[d]

\* The text holds a labelled score of dimension d: the label, and later on
\* the same line a "<n>/10".
HasLabelledScore(text, d) ==
    \E i \in 1..Len(text) : \E j \in (i + 1)..Len(text) :
        /\ text[i] = Label(d)
        /\ text[j].k = "score"
        /\ \A m \in (i + 1)..(j - 1) : text[m].k # "nl"

\* C1: with a threshold configured for every dimension, passes_threshold is
\* true exactly when the composite is at least the composite threshold and
\* no dimension is strictly below its own threshold, whatever the five
\* scores and the composite are.
C1_PassesIffCompositeAndEveryDimension ==
    (phase = "judged" /\ DOMAIN EVAL_DIMENSION_THRESHOLDS = DimSet) =>
        (passes <=>
            /\ result.weighted_score >= EVALUATION_THRESHOLD
            /\ \A d \in DimSet : result[d] >= EVAL_DIMENSION_THRESHOLDS[d])

\* A composite of 9.0 with relevance alone below its threshold: rejected.
C1_Witness ==
    /\ phase = "judged"
    /\ mode = "assign"
    /\ ShippedConfig
    /\ result.weighted_score = 9000
    /\ result.relevance = 79
    /\ \A d \in DimSet \ {"relevance"} : result[d] = ShippedThresholds[d]
    /\ ~passes

\* C6: with a weight configured for every dimension, parsing any text ends
\* without raising and gives each of the five dimensions a value; a
\* dimension with no labelled score in the text has the value 0.0.
C6_ExtractionTotalWithZeroDefault ==
    (mode = "parse" /\ DOMAIN EVAL_WEIGHTS = DimSet) =>
        /\ phase # "raised"
        /\ Built =>
            /\ DimSet \subseteq DOMAIN result
            /\ \A d \in DimSet :
                ~HasLabelledScore(raw_feedback, d) => result[d] = 0

\* A score on the line after the label is no labelled score of it.
C6_Witness ==
    /\ Parsed
    /\ raw_feedback = <<Label("novelty"), NL, Score(79)>>
    /\ result.novelty = 0

\* C8: with weights that sum to 1.0 and every score in [0,10], the
\* composite of a parsed text is the weighted sum of the five scores and
\* lies in [0,10].
C8_CompositeIsWeightedSumInRange ==
    ( /\ Parsed
      /\ DOMAIN EVAL_WEIGHTS = DimSet
      /\ SumOver(EVAL_WEIGHTS, DimSet) = 100
      /\ \A d \in DimSet : result[d] \in 0..100 ) =>
        /\ result.weighted_score =
              SumOver([d \in DimSet |-> result[d] * EVAL_WEIGHTS[d]], DimSet)
        /\ result.weighted_score \in 0..10000

\* Five scores of 10 give the composite 10, the upper end of the range.
C8_Witness ==
    /\ Parsed
    /\ EVAL_WEIGHTS = ShippedWeights
    /\ \A d \in DimSet : result[d] = 100
    /\ result.weighted_score = 10000

\* C9 as stated: the scores 10, 10, 10, 10, 7.9 give the composite 9.815
\* and do not pass.
C9_Original ==
    (mode = "parse" /\ phase = "judged" /\ ShippedConfig /\ ScoresAre(Scenario9)) =>
        /\ result.weighted_score = 9815
        /\ ~passes

\* C9, amended: the scores 10, 10, 10, 10, 7.9 give the composite 9.685
\* (at least 8.0) and do not pass, relevance being below its threshold.
C9_Composite9685Fails ==
    (mode = "parse" /\ phase = "judged" /\ ShippedConfig /\ ScoresAre(Scenario9)) =>
        /\ result.weighted_score = 9685
        /\ result.weighted_score >= EVALUATION_THRESHOLD
        /\ failed_dimensions(result) = {"relevance"}
        /\ ~passes

C9_Witness ==
    /\ mode = "parse"
    /\ phase = "judged"
    /\ ShippedConfig
    /\ raw_feedback = ReportText(Scenario9)
    /\ ScoresAre(Scenario9)

\* C10: the scores 9.5, 9.0, 8.5, 8.0, 8.0 give the composite 8.7 and pass.
C10_Composite87Passes ==
    (mode = "parse" /\ phase = "judged" /\ ShippedConfig /\ ScoresAre(Scenario10)) =>
        /\ result.weighted_score = 8700
        /\ passes

C10_Witness ==
    /\ mode = "parse"
    /\ phase = "judged"
    /\ ShippedConfig
    /\ raw_feedback = ReportText(Scenario10)
    /\ ScoresAre(Scenario10)
    /\ passes

\* Position i holds the label of dimension d and position j, later on the
\* same line, the first "<n>/10" after it.
LabelledScoreAt(text, d, i, j) ==
    /\ i < j
    /\ text[i] = Label(d)
    /\ text[j].k = "score"
    /\ \A m \in (i + 1)..(j - 1) : text[m].k \notin {"nl", "score"}

\* No label of another dimension lies between the two positions: the number
\* was written for dimension d.
OwnScoreAt(text, d, i, j) ==
    \A m \in (i + 1)..(j - 1) : text[m].k = "label" => text[m].d = d

\* C30: for every dimension with a labelled score in the text, the value
\* extracted is the number of the first "<label> ... <n>/10" occurrence of
\* that dimension, wherever the other dimensions stand, and no label of
\* another dimension lies between that label and that number.
C30_FirstMatchOfOwnScore ==
    (ShippedConfig /\ Parsed) =>
        \A d \in DimSet :
            HasLabelledScore(raw_feedback, d) =>
                \E i \in 1..Len(raw_feedback), j \in 1..Len(raw_feedback) :
                    /\ LabelledScoreAt(raw_feedback, d, i, j)
                    /\ \A m \in 1..(i - 1), n \in 1..Len(raw_feedback) :
                          ~LabelledScoreAt(raw_feedback, d, m, n)
                    /\ result[d] = raw_feedback[j].v
                    /\ OwnScoreAt(raw_feedback, d, i, j)

\* The least composite of a result in which no dimension fails, under the
\* shipped weights and thresholds: 8.45.
LeastPassingComposite ==
    SumOver([d \in DimSet |-> ShippedThresholds[d] * ShippedWeights[d]], DimSet)

\* C31: with the shipped configuration and parsed scores in [0,10], a result
\* in which no dimension is below its threshold has a composite of at least
\* 8.45; passes_threshold is then the same as failed_dimensions being empty,
\* and no result has a failing composite with every dimension passing.
C31_CompositeTestNeverDecides ==
    ( /\ ShippedConfig
      /\ mode = "parse"
      /\ phase = "judged"
      /\ \A d \in DimSet : result[d] \in 0..100 ) =>
        /\ LeastPassingComposite = 8450
        /\ failed_dimensions(result) = {} => result.weighted_score >= 8450
        /\ passes <=> failed_dimensions(result) = {}
        /\ ~( /\ result.weighted_score < EVALUATION_THRESHOLD
              /\ failed_dimensions(result) = {} )

\* Every score exactly at its threshold: the composite is 8.45 and passes.
C31_Witness ==
    /\ ShippedConfig
    /\ mode = "parse"
    /\ phase = "judged"
    /\ raw_feedback = ReportText(ShippedThresholds)
    /\ ScoresAre(ShippedThresholds)
    /\ result.weighted_score = 8450
    /\ passes

----------------------------------------------------------------------------
(* Properties of a run (checked under Spec). *)

\* The calls that generate, review or refine.
WorkCalls == {"generate", "reviewA", "reviewB", "meta", "refine"}

\* Arguments the specification admits: both positive.
ValidArguments == max_rounds >= 1 /\ num_ideas >= 1

\* The run, started with the shipped configuration and admitted arguments,
\* was ended by a failed model call made while candidate idx was being
\* evaluated or refined.
EndedByCandidateFailure ==
    /\ ShippedConfig
    /\ ValidArguments
    /\ pc = "raised"
    /\ err = "ProviderError"
    /\ calls # <<>>
    /\ calls[Len(calls)].kind \in {"reviewA", "reviewB", "meta", "refine"}

\* Candidate j has a record in the results of the batch.
HasRecord(j) ==
    \E k \in 1..Len(results_ideas) :
        results_ideas[k].original = individual_ideas[j]

\* C2: when a model call fails while candidate idx is evaluated or refined,
\* every other candidate still has its record in the results the run ends
\* with.
C2_OtherCandidatesStillRun ==
    EndedByCandidateFailure =>
        \A j \in 1..Len(individual_ideas) : j # idx => HasRecord(j)

\* C3: a candidate whose lifecycle a failed model call ended has a record
\* in the results the run ends with.
C3_FailedCandidateRecorded ==
    EndedByCandidateFailure => HasRecord(idx)

\* C4: a run started with max_rounds <= 0 or num_ideas <= 0 issues no
\* generation, review or refinement call.
C4_NonPositiveArgumentsIssueNoCall ==
    (ShippedConfig /\ (max_rounds <= 0 \/ num_ideas <= 0)) =>
        \A i \in 1..Len(calls) : calls[i].kind \notin WorkCalls

\* C5: under a configuration whose weights do not sum to 1.0, or that lacks
\* a weight or a threshold of a dimension, no generation, review or
\* refinement call is issued and no verdict is computed.
C5_InvalidConfigurationIssuesNoCall ==
    (ValidArguments /\ ~ValidConfig) =>
        /\ \A i \in 1..Len(calls) : calls[i].kind \notin WorkCalls
        /\ pc # "record"
        /\ idea_record.evaluations = <<>>
        /\ \A k \in 1..Len(results_ideas) : results_ideas[k].evaluations = <<>>

\* The evaluation entries of a record hold only scores in [0,10].
EntriesInRange(rec) ==
    \A e \in 1..Len(rec.evaluations) :
        \A d \in DimSet : rec.evaluations[e].dimension_scores[d] \in 0..100

\* C7: every dimension score of a verdict, and of an evaluation entry of a
\* record, lies in [0,10].
C7_ScoresWithinZeroToTen ==
    (ShippedConfig /\ ValidArguments) =>
        /\ \A d \in DimSet : eval_result[d] \in 0..100
        /\ EntriesInRange(idea_record)
        /\ \A k \in 1..Len(results_ideas) : EntriesInRange(results_ideas[k])

\* The last model call of the run so far.
LastCall == calls[Len(calls)]

\* The text holds no extractable score of any dimension.
NoScore(text) == \A d \in DimSet : ~HasLabelledScore(text, d)

LastEntry(rec) == rec.evaluations[Len(rec.evaluations)]

\* Whether the verdict an evaluation entry records passed.
EntryPasses(entry) ==
    entry.score >= EVALUATION_THRESHOLD /\ entry.failed_dimensions = {}

\* Terminal states of a record: its last verdict passed, or it failed in
\* round max_rounds.
Accepted(rec) == rec.evaluations # <<>> /\ EntryPasses(LastEntry(rec))

Exhausted(rec) ==
    /\ rec.evaluations # <<>>
    /\ ~EntryPasses(LastEntry(rec))
    /\ rec.rounds_used = max_rounds

\* The arbitration call returned a text without any extractable score.
ArbitrationWithoutScore ==
    /\ ShippedConfig
    /\ pc = "meta"
    /\ calls' # calls
    /\ calls'[Len(calls')].ok
    /\ NoScore(calls'[Len(calls')].reply)

\* The verdict about to be recorded came from such a text.
VerdictWithoutScore ==
    /\ ShippedConfig
    /\ pc = "record"
    /\ NoScore(LastCall.reply)

\* C11: an arbitration text without any extractable score still yields a
\* verdict, with composite 0.0 and passes false and without an exception,
\* and the controller treats it as any failing verdict: a refinement when
\* the round is below max_rounds, the end as Exhausted in round max_rounds.
C11_NoScoreVerdictFailsAndIsHandled ==
    [][/\ ArbitrationWithoutScore =>
            /\ pc' = "record"
            /\ err' = err
            /\ eval_result'.weighted_score = 0
            /\ ~passes_threshold(eval_result')
       /\ VerdictWithoutScore =>
            IF round_num < max_rounds
            THEN /\ pc' = "refine"
                 /\ LastEntry(idea_record').score = 0
                 /\ results_ideas' = results_ideas
            ELSE /\ pc' = "loop"
                 /\ Len(results_ideas') = Len(results_ideas) + 1
                 /\ Exhausted(results_ideas'[Len(results_ideas')])
                 /\ LastEntry(results_ideas'[Len(results_ideas')]).score = 0
      ]_vars

\* A candidate whose arbitration texts held no score in round 1 and in
\* round 2 = max_rounds was refined once and ended Exhausted.
C11_Witness ==
    /\ ShippedConfig
    /\ max_rounds = 2
    /\ Len(results_ideas) >= 1
    /\ Exhausted(results_ideas[1])
    /\ Len(results_ideas[1].refinements) = 1
    /\ \A r \in 1..2 :
          /\ results_ideas[1].evaluations[r].score = 0
          /\ \E i \in 1..Len(calls) :
                /\ calls[i].kind = "meta"
                /\ calls[i].idea = 1
                /\ calls[i].round = r
                /\ calls[i].ok
                /\ NoScore(calls[i].reply)

\* Every verdict the record holds failed.
EveryVerdictFails(rec) ==
    \A e \in 1..Len(rec.evaluations) : ~EntryPasses(rec.evaluations[e])

\* C12: with max_rounds = R >= 1, a returned record all of whose verdicts
\* failed is Exhausted and holds exactly R evaluation entries and R - 1
\* refinement entries, and no refinement is ever requested in round R: not
\* after its failing verdict, and the record in progress never holds more
\* than R - 1 refinements.
C12_AllFailingEndsExhaustedAfterRRounds ==
    max_rounds >= 1 =>
        /\ \A k \in 1..Len(results_ideas) :
              EveryVerdictFails(results_ideas[k]) =>
                  /\ Exhausted(results_ideas[k])
                  /\ Len(results_ideas[k].evaluations) = max_rounds
                  /\ Len(results_ideas[k].refinements) = max_rounds - 1
        /\ \A i \in 1..Len(calls) :
              calls[i].kind = "refine" => calls[i].round < max_rounds
        /\ Len(idea_record.refinements) <= max_rounds - 1

\* With max_rounds = 3, a candidate failed in all three rounds, the last
\* time with a composite above 0, and was returned with three evaluations
\* and two refinements.
C12_Witness ==
    /\ max_rounds = 3
    /\ Len(results_ideas) >= 1
    /\ EveryVerdictFails(results_ideas[1])
    /\ Len(results_ideas[1].evaluations) = 3
    /\ Len(results_ideas[1].refinements) = 2
    /\ results_ideas[1].evaluations[3].score > 0
    /\ results_ideas[1].rounds_used = 3

\* The text a record that went through k rounds was last evaluated on: the
\* output of the refinement of round k - 1, the original candidate for k = 1.
TextOfRound(rec, k) ==
    IF k = 1 THEN rec.original ELSE rec.refinements[k - 1].content

\* C13: a returned record whose first passing verdict came in round k is
\* Accepted with exactly k evaluation entries, the first k - 1 of them
\* failing, and k - 1 refinement entries, and its current text is the
\* output of the refinement of round k - 1, or the original candidate when
\* k = 1.
C13_FirstPassInRoundKEndsAccepted ==
    \A j \in 1..Len(results_ideas) :
        LET rec == results_ideas[j]
            k == Len(rec.evaluations)
        IN  (\E e \in 1..k : EntryPasses(rec.evaluations[e])) =>
                /\ Accepted(rec)
                /\ \A e \in 1..(k - 1) : ~EntryPasses(rec.evaluations[e])
                /\ k <= max_rounds
                /\ rec.rounds_used = k
                /\ rec.evaluations[k].round = k
                /\ Len(rec.refinements) = k - 1
                /\ rec.current = TextOfRound(rec, k)

\* With max_rounds = 3 a candidate failed in round 1, passed in round 2 and
\* was returned with two evaluations, one refinement and the output of the
\* refinement of round 1 as its current text.
C13_Witness ==
    /\ max_rounds = 3
    /\ Len(results_ideas) >= 1
    /\ Accepted(results_ideas[1])
    /\ Len(results_ideas[1].evaluations) = 2
    /\ ~EntryPasses(results_ideas[1].evaluations[1])
    /\ Len(results_ideas[1].refinements) = 1
    /\ results_ideas[1].current = <<Refined(1)>>
    /\ results_ideas[1].current # results_ideas[1].original

\* The calls made while a candidate is evaluated and refined.
CandidateCalls == {"reviewA", "reviewB", "meta", "refine"}

\* C14: once a verdict of round r passed, the loop stops in that round: the
\* record is returned at once (a record in progress holds no passing
\* verdict), no review call of a later round and no refinement call of
\* round r or later is made for that candidate, and the current text of the
\* record is the text the arbitration call of round r was given.
C14_PassingVerdictStopsTheLoop ==
    /\ EveryVerdictFails(idea_record)
    /\ \A j \in 1..Len(results_ideas) :
          \A r \in 1..Len(results_ideas[j].evaluations) :
              EntryPasses(results_ideas[j].evaluations[r]) =>
                  /\ \A m \in 1..Len(calls) :
                        (calls[m].idea = j /\ calls[m].kind \in CandidateCalls) =>
                            /\ calls[m].round <= r
                            /\ calls[m].kind = "refine" => calls[m].round < r
                  /\ \E m \in 1..Len(calls) :
                        /\ calls[m].kind = "meta"
                        /\ calls[m].idea = j
                        /\ calls[m].round = r
                        /\ calls[m].ok
                        /\ results_ideas[j].current = calls[m].prompt.idea

\* A run with max_rounds = 3 ended in which the first candidate passed in
\* round 1 and was not evaluated again while the second candidate went
\* through all three rounds.
C14_Witness ==
    /\ pc = "done"
    /\ max_rounds = 3
    /\ Len(results_ideas) = 2
    /\ Accepted(results_ideas[1])
    /\ results_ideas[1].rounds_used = 1
    /\ results_ideas[1].refinements = <<>>
    /\ results_ideas[2].rounds_used = 3

\* final_score and rounds_used of a record agree with its last evaluation
\* entry.
AgreesWithLastEntry(rec) ==
    rec.evaluations # <<>> =>
        /\ rec.final_score = LastEntry(rec).score
        /\ rec.rounds_used = LastEntry(rec).round
        /\ rec.rounds_used = Len(rec.evaluations)

\* C15: once an evaluation of a candidate was recorded, also in the middle
\* of the loop before the refinement of that round, final_score of the
\* record is the composite of the entry appended last, which is the
\* composite of the verdict of that round, and rounds_used is the round of
\* that entry and the number of evaluation entries.
C15_FinalScoreAndRoundsUsedFollowLastEntry ==
    /\ AgreesWithLastEntry(idea_record)
    /\ \A k \in 1..Len(results_ideas) : AgreesWithLastEntry(results_ideas[k])
    /\ pc = "refine" =>
          /\ idea_record.final_score = eval_result.weighted_score
          /\ idea_record.rounds_used = round_num

\* In the middle of the loop, before the refinement of round 2: the record
\* holds two entries with different composites and final_score is the
\* second.
C15_Witness ==
    /\ pc = "refine"
    /\ round_num = 2
    /\ Len(idea_record.evaluations) = 2
    /\ idea_record.evaluations[1].score # idea_record.evaluations[2].score
    /\ idea_record.final_score = idea_record.evaluations[2].score
    /\ idea_record.final_score > 0

\* The sequence s is the sequence t, or t with one element appended.
ExtendsByAtMostOne(s, t) ==
    /\ Len(s) \in {Len(t), Len(t) + 1}
    /\ SubSeq(s, 1, Len(t)) = t

\* The rounds of the evaluation entries are 1, 2, ..., and so are the
\* rounds of the refinement entries; a refinement entry of round r stands
\* only after a failed verdict of round r < max_rounds.
HistoriesInOrder(rec) ==
    /\ \A e \in 1..Len(rec.evaluations) : rec.evaluations[e].round = e
    /\ \A m \in 1..Len(rec.refinements) :
          /\ rec.refinements[m].round = m
          /\ m < max_rounds
          /\ m <= Len(rec.evaluations)
          /\ ~EntryPasses(rec.evaluations[m])

\* Every round of the record whose verdict failed below max_rounds has its
\* refinement entry.
EveryFailedRoundRefined(rec) ==
    \A r \in 1..Len(rec.evaluations) :
        (~EntryPasses(rec.evaluations[r]) /\ r < max_rounds) =>
            Len(rec.refinements) >= r

\* A step inside the lifecycle of one candidate.
SameCandidate == idx' = idx /\ pc # "loop" /\ pc' # "loop"

\* C25: in every state the evaluation entries of a record have the rounds
\* 1, 2, ..., k and the refinement entries the rounds of the failed verdicts
\* below max_rounds, one each and in order (the last one may still be
\* missing while its refinement is under way or has raised); a returned
\* record has them all; and every step of a lifecycle leaves both histories
\* as they were or appends one entry.
C25_HistoriesAreAppendOnlyAndInRoundOrder ==
    /\ [](/\ HistoriesInOrder(idea_record)
          /\ Len(idea_record.evaluations) \in {round_num, round_num - 1}
          /\ Len(idea_record.refinements) \in
                {Len(idea_record.evaluations), Len(idea_record.evaluations) - 1}
          /\ \A j \in 1..Len(results_ideas) :
                /\ HistoriesInOrder(results_ideas[j])
                /\ EveryFailedRoundRefined(results_ideas[j]))
    /\ [][SameCandidate =>
            /\ ExtendsByAtMostOne(idea_record'.evaluations, idea_record.evaluations)
            /\ ExtendsByAtMostOne(idea_record'.refinements, idea_record.refinements)
            /\ Len(idea_record'.evaluations) + Len(idea_record'.refinements)
                  <= Len(idea_record.evaluations) + Len(idea_record.refinements) + 1
         ]_vars

\* With max_rounds = 3 a candidate failed in rounds 1 and 2 and passed in
\* round 3: its record holds the evaluations of rounds 1, 2, 3 and the
\* refinements of rounds 1, 2.
C25_Witness ==
    /\ max_rounds = 3
    /\ Len(results_ideas) >= 1
    /\ Len(results_ideas[1].evaluations) = 3
    /\ EntryPasses(results_ideas[1].evaluations[3])
    /\ [m \in 1..2 |-> results_ideas[1].refinements[m].round] = <<1, 2>>
    /\ Len(results_ideas[1].refinements) = 2

\* C26: once a refinement of the record in progress was recorded, the
\* current field of the record is the output of the refinement recorded
\* last, through the whole of the next round.
C26_CurrentFollowsEachRefinement ==
    (/\ ShippedConfig
     /\ ValidArguments
     /\ idea_record.original # <<>>
     /\ idea_record.refinements # <<>>) =>
        idea_record.current =
            idea_record.refinements[Len(idea_record.refinements)].content

\* The control is inside _process_single_idea.
InLifecycle == pc \in {"reviewA", "reviewB", "meta", "record", "refine"}

\* A returned record is terminal: Accepted after 1..max_rounds rounds, or
\* Exhausted, which takes a failed last verdict in round max_rounds.
Terminal(rec) ==
    /\ rec.rounds_used \in 1..max_rounds
    /\ rec.rounds_used = Len(rec.evaluations)
    /\ Accepted(rec) \/ Exhausted(rec)
    /\ ~Accepted(rec) => rec.rounds_used = max_rounds

\* C27: with max_rounds >= 1 the lifecycle of a candidate never goes beyond
\* round max_rounds, every returned record is Accepted or Exhausted with
\* rounds_used in 1..max_rounds, Exhausted only in round max_rounds after a
\* failed verdict, and a lifecycle that was entered is left: by the return
\* of such a record or, when a call did not return, by the error.
C27_LifecycleTerminatesWithinMaxRounds ==
    /\ [](max_rounds >= 1 =>
            /\ round_num <= max_rounds
            /\ \A j \in 1..Len(results_ideas) : Terminal(results_ideas[j]))
    /\ [][(InLifecycle /\ ~InLifecycle' /\ pc' # "raised") =>
            /\ pc' = "loop"
            /\ Len(results_ideas') = Len(results_ideas) + 1
            /\ Terminal(results_ideas'[Len(results_ideas')])
         ]_vars
    /\ (InLifecycle ~> ~InLifecycle)

\* With max_rounds = 3 the run is over, every call returned, one candidate
\* ended Accepted in round 2 and the other Exhausted in round 3.
C27_Witness ==
    /\ pc = "done"
    /\ max_rounds = 3
    /\ Len(results_ideas) = 2
    /\ Accepted(results_ideas[1])
    /\ results_ideas[1].rounds_used = 2
    /\ Exhausted(results_ideas[2])
    /\ \A i \in 1..Len(calls) : calls[i].ok

\* The step issues a call for a candidate.
CandidateCallIssued ==
    /\ Len(calls') = Len(calls) + 1
    /\ calls'[Len(calls')].kind \in CandidateCalls

\* C28: the candidates are processed one at a time in the order of their
\* supply: a call for candidate j is issued only when the records of the
\* candidates 1..j-1, and no other, were returned; the calls of the log are
\* in the order of the candidates; the j-th record of the results is the
\* record of the j-th candidate; and no step changes or removes a record
\* that was returned.
C28_CandidatesOneAtATimeInSupplyOrder ==
    /\ [](/\ \A j \in 1..Len(results_ideas) :
                /\ j <= Len(individual_ideas)
                /\ results_ideas[j].original = individual_ideas[j]
          /\ \A m \in 1..Len(calls) : \A n \in (m + 1)..Len(calls) :
                (calls[m].kind \in CandidateCalls /\ calls[n].kind \in CandidateCalls)
                    => calls[m].idea <= calls[n].idea)
    /\ [][/\ CandidateCallIssued =>
               calls'[Len(calls')].idea = Len(results_ideas) + 1
          /\ Len(results_ideas') >= Len(results_ideas)
          /\ SubSeq(results_ideas', 1, Len(results_ideas)) = results_ideas
         ]_vars

\* Two candidates were supplied and the run is over: each has its record in
\* its place, each was evaluated, and the second went through more rounds
\* than the first.
C28_Witness ==
    /\ pc = "done"
    /\ Len(individual_ideas) = 2
    /\ Len(results_ideas) = 2
    /\ results_ideas[1].original = individual_ideas[1]
    /\ results_ideas[2].original = individual_ideas[2]
    /\ results_ideas[1].rounds_used = 1
    /\ results_ideas[2].rounds_used = 2

\* The positions in the log of the calls made for candidate j.
CallsOf(j) ==
    {m \in 1..Len(calls) :
        calls[m].idea = j /\ calls[m].kind \in CandidateCalls}

\* C29: every call site makes one attempt: a returned record with k
\* evaluation entries and m refinement entries stands for exactly 3k + m
\* calls made for its candidate, at most 4 * max_rounds - 1; no candidate has
\* more calls than that, no call of a candidate is made twice for the same
\* round, and a call that failed is followed by no call of a candidate.
C29_SingleAttemptPerCallSite ==
    /\ \A j \in 1..Len(results_ideas) :
          /\ Cardinality(CallsOf(j)) =
                3 * Len(results_ideas[j].evaluations)
                    + Len(results_ideas[j].refinements)
          /\ max_rounds >= 1 => Cardinality(CallsOf(j)) <= 4 * max_rounds - 1
    /\ max_rounds >= 1 => Cardinality(CallsOf(idx)) <= 4 * max_rounds - 1
    /\ \A m \in 1..Len(calls) : \A n \in (m + 1)..Len(calls) :
          /\ (/\ calls[m].kind \in CandidateCalls
              /\ calls[m].kind = calls[n].kind
              /\ calls[m].idea = calls[n].idea) => calls[m].round # calls[n].round
          /\ (~calls[m].ok /\ calls[n].kind \in CandidateCalls) =>
                calls[m].kind = "translate"

\* With max_rounds = 3 a candidate went through three evaluations and two
\* refinements: eleven calls, 4 * max_rounds - 1.
C29_Witness ==
    /\ max_rounds = 3
    /\ Len(results_ideas) >= 1
    /\ Len(results_ideas[1].evaluations) = 3
    /\ Len(results_ideas[1].refinements) = 2
    /\ Cardinality(CallsOf(1)) = 11

\* Some record of the batch ended Accepted.
SomeAccepted == \E i \in 1..Len(results_ideas) : Accepted(results_ideas[i])

\* C32: whenever some record of the batch ended Accepted, the record
\* _select_best_idea chooses, for which the final report is asked, is an
\* Accepted record.
C32_BestIsAcceptedWhenSomeRecordIs ==
    ( /\ ShippedConfig
      /\ ValidArguments
      /\ \A i \in 1..Len(results_ideas) : EntriesInRange(results_ideas[i])
      /\ pc \in {"report", "save", "summary", "done"}
      /\ SomeAccepted ) =>
        /\ Accepted(results_ideas[_select_best_idea(results_ideas)])
        /\ best # 0 => Accepted(results_ideas[best])

\* C33: the run summary marks an idea as passed exactly when its last
\* verdict passed (the record ended Accepted); an idea that ended Exhausted
\* is not marked as passed.
C33_SummaryMarksExactlyTheAccepted ==
    ( /\ ShippedConfig
      /\ ValidArguments
      /\ \A i \in 1..Len(results_ideas) :
            /\ EntriesInRange(results_ideas[i])
            /\ results_ideas[i].original # <<>>
      /\ pc = "done" ) =>
        /\ Len(summary) = Len(results_ideas)
        /\ \A i \in 1..Len(results_ideas) :
              /\ summary[i] <=> Accepted(results_ideas[i])
              /\ Exhausted(results_ideas[i]) => ~summary[i]

\* The record agrees with itself: one refinement entry fewer than evaluation
\* entries, the current text the content of the last refinement entry (the
\* original when there is none), final_score the composite of the last
\* evaluation entry.
EndsConsistent(rec) ==
    /\ rec.evaluations # <<>>
    /\ Len(rec.refinements) = Len(rec.evaluations) - 1
    /\ rec.current = TextOfRound(rec, Len(rec.evaluations))
    /\ rec.final_score = LastEntry(rec).score

\* The step returns a record: the verdict recorded last came from the
\* arbitration of exactly the text the record holds as current.
ReturnsVerdictOfCurrent ==
    (max_rounds >= 1 /\ Len(results_ideas') = Len(results_ideas) + 1) =>
        LET rec == results_ideas'[Len(results_ideas')]
        IN  /\ LastCall.kind = "meta"
            /\ LastCall.ok
            /\ LastCall.prompt.idea = rec.current
            /\ rec.final_score = _parse_evaluation(LastCall.reply).weighted_score

\* C34: in every record _process_single_idea returned with max_rounds >= 1
\* the number of refinement entries is the number of evaluation entries
\* minus one, current is the content of the last refinement entry (the
\* original when there is none), and final_score is the composite of the
\* verdict that evaluated exactly that current text.
C34_ReturnedRecordIsConsistent ==
    /\ [](max_rounds >= 1 =>
            \A k \in 1..Len(results_ideas) : EndsConsistent(results_ideas[k]))
    /\ [][ReturnsVerdictOfCurrent]_vars

\* A record returned after two rounds: one refinement entry, whose content
\* is the current text and not the original, and the composite of the
\* second verdict, which differs from the first.
C34_Witness ==
    /\ max_rounds >= 2
    /\ results_ideas # <<>>
    /\ LET rec == results_ideas[1]
       IN  /\ Len(rec.evaluations) = 2
           /\ Len(rec.refinements) = 1
           /\ rec.current = rec.refinements[1].content
           /\ rec.current # rec.original
           /\ rec.final_score = rec.evaluations[2].score
           /\ rec.evaluations[1].score # rec.evaluations[2].score

\* Every candidate of the batch reached a terminal state: the loop over the
\* candidates returned a record for each of them.
AllCandidatesTerminal ==
    /\ individual_ideas # <<>>
    /\ \A j \in 1..Len(individual_ideas) : individual_ideas[j] # <<>>
    /\ Len(results_ideas) = Len(individual_ideas)

\* C36: a run in which every candidate reached a terminal state does not
\* end, by its return or by an error, without the records having been
\* saved; this holds also when the call for the final report fails.
C36_RecordsSavedOnceAllCandidatesAreTerminal ==
    ( /\ ShippedConfig
      /\ ValidArguments
      /\ AllCandidatesTerminal
      /\ pc \in {"done", "raised"} ) =>
        saved = <<results_ideas>>

----------------------------------------------------------------------------
(* Properties of step 5 of run() (checked under SpecSelect) *)

\* The final scores of the records, in order.
FinalScoresOf(ideas) == [i \in 1..Len(ideas) |-> ideas[i].final_score]

\* Step 5 asked for the report of a best idea.
ReportAsked == \E i \in 1..Len(calls) : calls[i].kind = "report"

\* C16: for every non-empty list of records _select_best_idea returns a
\* record whose final_score is maximal in the list, the one of smallest
\* index among those with the maximal final_score; for the final scores
\* [6.1, 8.9, 8.9] it is the record at index 1 (the second one).  The best
\* idea the report was asked for is that record.
C16_BestIsFirstOfTheMaximal ==
    results_ideas # <<>> =>
        LET b == _select_best_idea(results_ideas)
        IN  /\ b \in 1..Len(results_ideas)
            /\ \A j \in 1..Len(results_ideas) :
                  results_ideas[j].final_score <= results_ideas[b].final_score
            /\ \A j \in 1..(b - 1) :
                  results_ideas[j].final_score < results_ideas[b].final_score
            /\ FinalScoresOf(results_ideas) = <<6100, 8900, 8900>> => b = 2
            /\ ReportAsked => best = b

\* The report was asked for the records with final scores [6.1, 8.9, 8.9]
\* and the best idea is the second record.
C16_Witness ==
    /\ mode = "select"
    /\ FinalScoresOf(results_ideas) = <<6100, 8900, 8900>>
    /\ ReportAsked
    /\ best = 2

\* C17: with an empty list of records _select_best_idea returns None and
\* raises nothing, and step 5 then leaves final_report unset and issues no
\* report call.
C17_EmptyListGivesNoReport ==
    results_ideas = <<>> =>
        /\ _select_best_idea(results_ideas) = 0
        /\ best = 0
        /\ final_report = "None"
        /\ ~ReportAsked
        /\ pc \in {"report", "save"}
        /\ err = ""

\* Step 5 is over for an empty list of records.
C17_Witness ==
    /\ mode = "select"
    /\ results_ideas = <<>>
    /\ pc = "save"
    /\ final_report = "None"

----------------------------------------------------------------------------
(* Properties of MultiReviewer.evaluate (checked under Spec) *)

\* The positions in the log of the calls evaluate made for candidate j in
\* round r.
EvaluateCalls(j, r) ==
    {m \in 1..Len(calls) :
        /\ calls[m].idea = j
        /\ calls[m].round = r
        /\ calls[m].kind \in {"reviewA", "reviewB", "meta"}}

\* Call i was made by the same evaluate as call m, for the same candidate
\* text.
SameEvaluate(i, m) ==
    /\ calls[i].idea = calls[m].idea
    /\ calls[i].round = calls[m].round
    /\ calls[i].prompt.idea = calls[m].prompt.idea

\* C18: one evaluate makes exactly three model calls, reviewer A, then
\* reviewer B, then the arbitration: a reviewer-B call directly follows the
\* returned reviewer-A call of the same evaluate, an arbitration call
\* directly follows the returned reviewer-B call, its prompt holds the two
\* returned reviews, each in its place, and the candidate text the two
\* reviewers were given, and an evaluation that returned made three calls.
C18_ThreeCallsInOrderAThenBThenArbitration ==
    /\ \A i \in 1..Len(calls) :
          /\ calls[i].kind = "reviewB" =>
                /\ i >= 2
                /\ calls[i - 1].kind = "reviewA"
                /\ calls[i - 1].ok
                /\ SameEvaluate(i - 1, i)
          /\ calls[i].kind = "meta" =>
                /\ i >= 3
                /\ calls[i - 1].kind = "reviewB"
                /\ calls[i - 1].ok
                /\ SameEvaluate(i - 1, i)
                /\ calls[i].prompt.a = calls[i - 2].reply
                /\ calls[i].prompt.b = calls[i - 1].reply
    /\ \A r \in 1..Len(idea_record.evaluations) :
          Cardinality(EvaluateCalls(idx, r)) = 3
    /\ \A j \in 1..Len(results_ideas) :
          \A r \in 1..Len(results_ideas[j].evaluations) :
              Cardinality(EvaluateCalls(j, r)) = 3

\* The evaluate of round 2 of a candidate returned: its three calls are the
\* last three of the log, made for the refined text, and the arbitration
\* prompt holds two different reviews.
C18_Witness ==
    /\ pc = "record"
    /\ round_num = 2
    /\ Len(calls) >= 3
    /\ LastCall.kind = "meta"
    /\ LastCall.ok
    /\ LastCall.prompt.idea = <<Refined(1)>>
    /\ LastCall.prompt.a # LastCall.prompt.b
    /\ LastCall.prompt.a # <<>>
    /\ Cardinality(EvaluateCalls(idx, 2)) = 3

\* Call i is a call of evaluate that raised.
FailedEvaluateCall(i) ==
    /\ calls[i].kind \in {"reviewA", "reviewB", "meta"}
    /\ ~calls[i].ok

\* The record in progress and the verdict held are as the rounds before
\* round r left them.
AsAfterRound(r) ==
    /\ Len(idea_record.evaluations) = r
    /\ idea_record.rounds_used = r
    /\ IF r = 0
       THEN /\ idea_record.final_score = 0
            /\ eval_result = EvaluationResult
       ELSE /\ idea_record.final_score = idea_record.evaluations[r].score
            /\ eval_result.weighted_score = idea_record.evaluations[r].score
            /\ eval_result.raw_feedback = idea_record.evaluations[r].feedback

\* C21: a call of evaluate that raised is the last call of the run: it is
\* not made again and neither the remaining calls of that evaluation nor any
\* other call follows; the error has left the controller, no verdict was
\* returned, and the record in progress holds no evaluation entry of that
\* round, its final_score and rounds_used being those of the round before.
C21_FailedCallEndsTheEvaluation ==
    \A i \in 1..Len(calls) :
        FailedEvaluateCall(i) =>
            /\ i = Len(calls)
            /\ pc = "raised"
            /\ err = "ProviderError"
            /\ calls[i].idea = idx
            /\ calls[i].round = round_num
            /\ AsAfterRound(round_num - 1)

\* The reviewer-B call of round 2 raised: the record holds the one entry of
\* round 1, whose composite is above 0.
C21_Witness ==
    /\ calls # <<>>
    /\ FailedEvaluateCall(Len(calls))
    /\ LastCall.kind = "reviewB"
    /\ round_num = 2
    /\ pc = "raised"
    /\ Len(idea_record.evaluations) = 1
    /\ idea_record.final_score > 0

\* The record of candidate j: returned, or in progress.
RecordOf(j) ==
    IF j <= Len(results_ideas) THEN results_ideas[j] ELSE idea_record

\* C22: the refinement call of round r of a candidate is given the text the
\* arbitration call of round r was given and, as feedback, the whole
\* commentary of the verdict of round r; the text it returns, be it empty
\* or no idea at all, is the current text at once and is the text every
\* call of the evaluation of round r + 1 is given.
C22_RefinementTakesRoundTextAndGivesNextRoundText ==
    \A i \in 1..Len(calls) :
        calls[i].kind = "refine" =>
            /\ calls[i].round <= Len(RecordOf(calls[i].idea).evaluations)
            /\ calls[i].prompt.feedback =
                  RecordOf(calls[i].idea).evaluations[calls[i].round].feedback
            /\ \E m \in 1..(i - 1) :
                  /\ calls[m].kind = "meta"
                  /\ calls[m].ok
                  /\ calls[m].idea = calls[i].idea
                  /\ calls[m].round = calls[i].round
                  /\ calls[m].prompt.idea = calls[i].prompt.idea
            /\ (calls[i].ok /\ i = Len(calls)) =>
                  /\ pc = "reviewA"
                  /\ round_num = calls[i].round + 1
                  /\ current_idea = calls[i].reply
            /\ calls[i].ok =>
                  \A m \in (i + 1)..Len(calls) :
                      (/\ calls[m].idea = calls[i].idea
                       /\ calls[m].round = calls[i].round + 1
                       /\ calls[m].kind \in CandidateCalls) =>
                          calls[m].prompt.idea = calls[i].reply

\* The refinement of round 1 was given a commentary and returned an empty
\* text, and the arbitration of round 2 was called for the empty text.
C22_Witness ==
    \E i \in 1..Len(calls) :
        /\ calls[i].kind = "refine"
        /\ calls[i].ok
        /\ calls[i].round = 1
        /\ calls[i].reply = <<>>
        /\ calls[i].prompt.idea # <<>>
        /\ calls[i].prompt.feedback # <<>>
        /\ \E m \in (i + 1)..Len(calls) :
              /\ calls[m].kind = "meta"
              /\ calls[m].idea = calls[i].idea
              /\ calls[m].round = 2
              /\ calls[m].prompt.idea = <<>>

\* The reply of the returned call of that kind which evaluate made for
\* candidate j in round r.
ReplyOf(kind, j, r) ==
    LET m == CHOOSE m \in EvaluateCalls(j, r) : calls[m].kind = kind /\ calls[m].ok
    IN  calls[m].reply

\* The text c is the text a under the header of reviewer A, then the text b
\* under the header of reviewer B, then the text t under the header of the
\* arbitration, and nothing else but the blank lines between them.
IsCommentaryOf(c, a, b, t) ==
    LET pa == 2
        pb == pa + Len(a) + 4
        pt == pb + Len(b) + 4
    IN  /\ Len(c) = pt + Len(t)
        /\ c[1] = HeaderA
        /\ c[2] = NL
        /\ SubSeq(c, pa + 1, pa + Len(a)) = a
        /\ SubSeq(c, pa + Len(a) + 1, pb) = <<NL, NL, HeaderB, NL>>
        /\ SubSeq(c, pb + 1, pb + Len(b)) = b
        /\ SubSeq(c, pb + Len(b) + 1, pt) = <<NL, NL, HeaderMeta, NL>>
        /\ SubSeq(c, pt + 1, pt + Len(t)) = t

\* The feedback of every evaluation entry of the record of candidate j is
\* the commentary of the three replies of that round.
FeedbackIsCommentary(rec, j) ==
    \A r \in 1..Len(rec.evaluations) :
        IsCommentaryOf(rec.evaluations[r].feedback,
                       ReplyOf("reviewA", j, r),
                       ReplyOf("reviewB", j, r),
                       ReplyOf("meta", j, r))

\* C20: the raw commentary of every verdict evaluate returned, as it is
\* held by the verdict and by the evaluation entries of the records, is the
\* reply of reviewer A, the reply of reviewer B and the reply of the
\* arbitration, each unchanged under its header, in this order.
C20_CommentaryHoldsTheThreeTextsInOrder ==
    /\ pc = "record" =>
          IsCommentaryOf(eval_result.raw_feedback,
                         calls[Len(calls) - 2].reply,
                         calls[Len(calls) - 1].reply,
                         calls[Len(calls)].reply)
    /\ FeedbackIsCommentary(idea_record, idx)
    /\ \A j \in 1..Len(results_ideas) :
          FeedbackIsCommentary(results_ideas[j], j)

\* A verdict was returned and recorded whose commentary holds the scores of
\* reviewer A, the scores of reviewer B and the scores of the arbitration.
C20_Witness ==
    /\ Len(results_ideas) >= 1
    /\ results_ideas[1].evaluations # <<>>
    /\ results_ideas[1].evaluations[1].feedback =
          <<HeaderA, NL, Label("novelty"), Score(0), NL, NL,
            HeaderB, NL, Label("novelty"), Score(100), NL,
            Label("clarity"), Score(100), NL, NL, HeaderMeta, NL>>
              \o ReportText(Scenario10)

----------------------------------------------------------------------------
(* Properties of two calls of MultiReviewer.evaluate (checked under
   SpecReview) *)

\* The verdict of an EvaluationResult: its five scores, its composite and
\* whether it passes.
Verdict(r) ==
    [scores |-> [d \in DimSet |-> r[d]],
     composite |-> r.weighted_score,
     passes |-> passes_threshold(r)]

\* C19: two calls of evaluate whose arbitration texts are the same and
\* whose reviewer-A and reviewer-B texts differ, whatever scores those
\* hold, return the same dimension scores, composite and passes.
C19_VerdictDependsOnArbitrationTextAlone ==
    (mode = "review" /\ phase = "judged") =>
        /\ Verdict(result) = Verdict(eval_result)
        /\ result.raw_feedback # eval_result.raw_feedback

\* Two calls returned for an arbitration text whose scores pass: in the
\* first call both reviewers gave scores that fail, in the second reviewer
\* A gave none.
C19_Witness ==
    /\ mode = "review"
    /\ phase = "judged"
    /\ raw_feedback = ReportText(Scenario10)
    /\ eval_result.raw_feedback =
          Commentary(<<Label("novelty"), Score(0)>>,
                     <<Label("novelty"), Score(0)>>, raw_feedback)
    /\ review_a = <<>>
    /\ Verdict(result).passes

----------------------------------------------------------------------------
(* Properties of _split_ideas and of the loop over the candidates (checked
   under SpecSplit) *)

\* The text the generation call returned.
Generated == calls[1].reply

\* The generation call returned and the text was split.
SplitDone == mode = "split" /\ pc \in {"loop", "report"}

\* The text holds no "### Idea <n>" header.
NoIdeaSection(text) == \A i \in 1..Len(text) : text[i].k # "hdr"

\* The text neither starts nor ends with whitespace.
Trimmed(text) ==
    text # <<>> => ~IsSpace(text[1]) /\ ~IsSpace(text[Len(text)])

\* The text without the whitespace at its two ends, by positions.
IsTrimOf(t, text) ==
    /\ Trimmed(t)
    /\ \E i \in 1..(Len(text) + 1) :
          /\ \A m \in 1..(i - 1) : IsSpace(text[m])
          /\ \A m \in (i + Len(t))..Len(text) : IsSpace(text[m])
          /\ i + Len(t) - 1 <= Len(text)
          /\ t = SubSeq(text, i, i + Len(t) - 1)

\* C23: for every generated text _split_ideas returns at least one
\* candidate; for a text without an idea section it returns exactly one,
\* the whole text trimmed; and the batch ends with one record for each
\* candidate, so never with none.
C23_SplitReturnsAtLeastOneCandidate ==
    SplitDone =>
        /\ Len(individual_ideas) >= 1
        /\ NoIdeaSection(Generated) =>
              /\ Len(individual_ideas) = 1
              /\ IsTrimOf(individual_ideas[1], Generated)
        /\ pc = "report" =>
              /\ Len(results_ideas) = Len(individual_ideas)
              /\ results_ideas # <<>>

\* A text of whitespace and words without any header was split into the
\* one candidate that is the text trimmed, and the batch ended with its
\* record.
C23_Witness ==
    /\ SplitDone
    /\ pc = "report"
    /\ Generated = <<WS, Other, NL>>
    /\ individual_ideas = <<(<<Other>>)>>
    /\ Len(results_ideas) = 1

\* C24: every candidate _split_ideas returned, and so every candidate handed
\* to _process_single_idea, is a trimmed and non-empty text, whatever the
\* generated text, an empty or blank one included.
C24_CandidatesAreTrimmedAndNonEmpty ==
    SplitDone =>
        /\ \A j \in 1..Len(individual_ideas) :
              individual_ideas[j] # <<>> /\ Trimmed(individual_ideas[j])
        /\ \A j \in 1..Len(results_ideas) :
              results_ideas[j].original # <<>>

\* C35: when the generated text holds at least one "### Idea <n>" header,
\* _split_ideas returns exactly one candidate for each header, each starting
\* at its header; the text before the first header is no candidate.
C35_OneCandidatePerHeader ==
    (SplitDone /\ ~NoIdeaSection(Generated)) =>
        /\ Len(individual_ideas) = Cardinality(HeaderPositions(Generated))
        /\ \A j \in 1..Len(individual_ideas) :
              /\ individual_ideas[j] # <<>>
              /\ individual_ideas[j][1].k = "hdr"

----------------------------------------------------------------------------
(* Properties of run_pipeline (checked under SpecPipeline) *)

StageOrder ==
    <<"select_hypothesis", "review_hypothesis", "load_or_generate_plan",
      "review_plan", "run", "write_report", "record_cost">>

IsPrefix(s, t) == Len(s) <= Len(t) /\ s = SubSeq(t, 1, Len(s))

\* The stage ran and returned without an error.
Ran(stage) == \E i \in 1..Len(stages) : stages[i] = stage

BothReviewsReturned == Ran("review_hypothesis") /\ Ran("review_plan")

\* meta/costs.json holds n entries of this run.
CostEntriesOfRun(n) ==
    Cardinality({i \in 1..Len(Get(disk.costs, <<>>)) :
                    disk.costs[1][i].run_id = RunId}) = n

\* The experiment was run or left a trace: a result, a run directory, a
\* report, a cost entry.
ExperimentTouched ==
    \/ Ran("run")
    \/ results # NoResults
    \/ disk.runs # <<>>
    \/ Has(disk.report)
    \/ ~CostEntriesOfRun(0)

\* C37: the stages of run_pipeline return in the fixed order select
\* hypothesis, review hypothesis, load or generate plan, review plan,
\* experiment, write report, record cost; the experiment is not run, and no
\* run directory, report or cost entry is written, unless review_hypothesis
\* and review_plan both returned without an error.
C37_StagesInOrderAndNothingRunsUnreviewed ==
    /\ IsPrefix(stages, StageOrder)
    /\ ExperimentTouched =>
          /\ BothReviewsReturned
          /\ review_hypothesis(hypothesis) = ""
          /\ review_plan(plan, hypothesis) = ""
    /\ (pc = "raised" /\ ~BothReviewsReturned) => ~ExperimentTouched

\* A run that returned: the seven stages in their order, the run directory,
\* the report and one cost entry written.
C37_Witness ==
    /\ pc = "returned"
    /\ stages = StageOrder
    /\ Len(disk.runs) = 1
    /\ Has(disk.report)
    /\ CostEntriesOfRun(1)

\* C38: whenever both reviews passed, run_pipeline does not end by an
\* error, whatever the outcome of the experiment (simulation, API run that
\* succeeded, API run that failed and became a result of status "failed"),
\* and when it returned it had written the report and appended exactly one
\* cost entry for the run.
C38_CompletesForEveryExperimentOutcome ==
    ( /\ BothReviewsReturned
      /\ Has(plan.budget[1].max_token_usage) ) =>
        /\ pc # "raised"
        /\ pc = "returned" => Has(disk.report) /\ CostEntriesOfRun(1)

\* The plan disables training explicitly and its llm_mode is unset or
\* "api_inference".
TrainingDisabled(p) ==
    /\ Has(p.execution)
    /\ p.execution[1].allow_training = <<FALSE>>
    /\ p.execution[1].llm_mode \in {<<>>, <<"api_inference">>}

\* C39: review_plan returns without an error only for a plan that disables
\* training explicitly and whose llm_mode is unset or "api_inference"; for
\* any other plan, one with no execution section or an empty one included,
\* no experiment is run.
C39_OnlyPlansThatDisableTrainingAreAccepted ==
    /\ Ran("review_plan") => TrainingDisabled(plan)
    /\ Ran("run") => TrainingDisabled(plan)

====
